---- MODULE Spec2Model ----
(***************************************************************************)
(* A model of the OpenSRF websocket gateway session (opensrf/src/bin/      *)
(* websockets.rs) and of the OpenSRF service worker (opensrf/src/worker.rs) *)
(***************************************************************************)
EXTENDS Integers, Sequences, FiniteSets, TLC

(***************************************************************************)
(* Program constants of websockets.rs                                      *)
(***************************************************************************)
SHUTDOWN_POLL_INTERVAL == 3
SHUTDOWN_MAX_WAIT == 30
MAX_THREAD_SIZE == 256
MAX_MESSAGE_SIZE == 10485760

(***************************************************************************)
(* Bounds of the model.  MAX_BACKLOG_SIZE is 1000 in the source and        *)
(* max_parallel defaults to MAX_ACTIVE_REQUESTS = 8 (it is read from       *)
(* OSRF_WS_MAX_PARALLEL); both are scaled down here.  MaxChannel bounds    *)
(* the number of frames and envelopes waiting in the mpsc channel.         *)
(***************************************************************************)
MAX_BACKLOG_SIZE == 2
max_parallel == 2
MaxChannel == 1

(***************************************************************************)
(* Bounds of the worker model.  max_requests is a host setting (5000 when  *)
(* unset).  MaxTrace is the number of messages the clients send to the     *)
(* worker in one behaviour, MaxQueue the number of envelopes that wait at  *)
(* the worker's own bus address.                                           *)
(***************************************************************************)
max_requests == 2
MaxTrace == 4
MaxQueue == 1

(***************************************************************************)
(* Bounds of the gateway process.  MAX_WS_CLIENTS is the size of the       *)
(* thread pool and the default of max_clients (256 in the source), scaled  *)
(* down here; MaxAccepted bounds the number of clients that connect in one *)
(* behaviour.                                                              *)
(***************************************************************************)
MAX_WS_CLIENTS == 2
MaxAccepted == 4

(***************************************************************************)
(* Bounds of the JSON values json_bool is called with: integers from       *)
(* -MaxNumber to MaxNumber, strings of at most MaxLen characters.          *)
(***************************************************************************)
MaxNumber == 3
MaxLen == 2

(***************************************************************************)
(* Addresses                                                               *)
(***************************************************************************)
Addr(kind, domain, name) == [kind |-> kind, domain |-> domain, name |-> name]
NoAddr == Addr("none", "", "")
LocalDomain == "localhost"
RouterAddress(domain) == Addr("router", domain, "")
ServiceAddress(service) == Addr("service", "", service)
ClientAddress(id) == Addr("client", LocalDomain, id)
GatewayAddress == ClientAddress("gw")
W1 == ClientAddress("w1")
W2 == ClientAddress("w2")

(***************************************************************************)
(* Websocket messages.  A text frame is described by what relay_to_osrf    *)
(* reads of it: its byte size, whether it parses as JSON, its "thread"     *)
(* (and the length of that string), its "service" and its "osrf_msg" list. *)
(* An element of the list is the message type it decodes to, "NULL" for a  *)
(* JSON null and "BAD" for a value Message::from_json_value rejects.       *)
(***************************************************************************)
NoThread == "nothread"
NoService == "noservice"
\* The thread that is the empty string.
EmptyThread == ""
Threads == {"T1", "T2", "T3", EmptyThread}

Text(size, parses, thread, tlen, service, msgs) ==
    [kind |-> "Text", size |-> size, parses |-> parses, thread |-> thread,
     tlen |-> tlen, service |-> service, msgs |-> msgs]
Frame(thread, msgs) ==
    Text(100, TRUE, thread, 2, IF thread = "T1" THEN "svc" ELSE "svc2", msgs)
\* A frame without the "service" key.
NoServiceFrame(thread, msgs) == Text(100, TRUE, thread, 2, NoService, msgs)
Control(kind) ==
    [kind |-> kind, size |-> 0, parses |-> FALSE, thread |-> NoThread,
     tlen |-> 0, service |-> NoService, msgs |-> <<>>]

Oversize == Text(MAX_MESSAGE_SIZE + 1, TRUE, "T1", 2, "svc", <<"REQUEST">>)
\* A frame of exactly MAX_MESSAGE_SIZE bytes.
Largest == Text(MAX_MESSAGE_SIZE, TRUE, "T1", 2, "svc", <<"REQUEST">>)
\* Frames relay_to_osrf rejects: text that is not JSON, no "thread" key, a
\* thread of more than MAX_THREAD_SIZE bytes, an inner message that does not
\* decode.
Unparseable == Text(100, FALSE, NoThread, 0, NoService, <<>>)
NoThreadFrame == Text(100, TRUE, NoThread, 0, "svc", <<"REQUEST">>)
LongThreadFrame == Text(400, TRUE, "T1", MAX_THREAD_SIZE + 1, "svc", <<"REQUEST">>)
Undecodable == Frame("T1", <<"BAD">>)
Ping == Control("Ping")
Close == Control("Close")
Binary == Control("Binary")

(***************************************************************************)
(* Bus envelopes (TransportMessage) and inner messages                     *)
(***************************************************************************)
MessageStatus ==
    [Continue |-> 100, Ok |-> 200, Complete |-> 205, BadRequest |-> 400,
     MethodNotFound |-> 404, Timeout |-> 408, InternalServerError |-> 500]

Status(code) == [mtype |-> "STATUS", code |-> code]
Result == [mtype |-> "RESULT", code |-> 0]
Message(mtype) == [mtype |-> mtype, code |-> 0]

\* TransportMessage::with_body_vec plus the queue it is pushed to:
\* via is the override of Bus::send_to, NoAddr for Bus::send.
TransportMessage(to, from, thread, body, via) ==
    [to |-> to, from |-> from, thread |-> thread, body |-> body, via |-> via]

Reply(thread, from, body) == TransportMessage(GatewayAddress, from, thread, body, NoAddr)

StatusReply(thread, from, code) == Reply(thread, from, <<Status(code)>>)

(***************************************************************************)
(* The environment of one session: the websocket messages its client may   *)
(* send and the envelopes the services may answer with.  Each behaviour    *)
(* of the model is a session with one of these environments.               *)
(***************************************************************************)
\* channel is the number of messages the mpsc channel of the session holds
\* at most in the behaviours of the environment; audit says whether the
\* unanswered messages of each thread are counted in its behaviours.
Environment(sends, replies) ==
    [sends |-> sends, replies |-> replies, channel |-> MaxChannel, audit |-> FALSE]

Environments ==
    { \* saturation of max_parallel and of the backlog
      Environment({Frame("T1", <<"REQUEST">>), Frame("T1", <<"REQUEST", "REQUEST">>),
                   Oversize, Largest},
                  {StatusReply("T1", W1, MessageStatus.Complete)}),
      \* the recipient cache of a connected conversation
      Environment({Frame("T1", <<"CONNECT">>), Frame("T1", <<"REQUEST">>),
                   Frame("T1", <<"DISCONNECT">>)},
                  {StatusReply("T1", W1, MessageStatus.Ok),
                   StatusReply("T1", W2, MessageStatus.Ok)}),
      \* a connected conversation whose later frames leave the service out
      Environment({Frame("T1", <<"CONNECT">>), NoServiceFrame("T1", <<"REQUEST">>)},
                  {StatusReply("T1", W1, MessageStatus.Ok),
                   Reply("T1", W1, <<Result, Status(MessageStatus.Complete)>>)}),
      \* error replies and rejected frames
      Environment({Frame("T1", <<"REQUEST">>), Frame("T1", <<"REQUEST", "STATUS">>)},
                  {StatusReply("T1", W1, MessageStatus.Ok),
                   StatusReply("T1", W1, MessageStatus.Timeout),
                   Reply("T1", W1, <<Result, Status(MessageStatus.Complete)>>),
                   Reply("T1", W2, <<Status(MessageStatus.Timeout),
                                     Status(MessageStatus.Ok)>>)}),
      \* control frames
      Environment({Frame("T1", <<"REQUEST">>), Ping, Close, Binary},
                  {Reply("T1", W1, <<Result>>)}),
      \* two threads
      Environment({Frame("T1", <<"CONNECT">>), Frame("T2", <<"REQUEST">>)},
                  {StatusReply("T1", W1, MessageStatus.Ok),
                   StatusReply("T2", W2, MessageStatus.Complete),
                   StatusReply("T2", W2, MessageStatus.Timeout)}),
      \* a connected conversation from Connect to Disconnect
      Environment({Frame("T1", <<"CONNECT">>), Frame("T1", <<"REQUEST">>),
                   Frame("T1", <<"DISCONNECT">>)},
                  {StatusReply("T1", W1, MessageStatus.Ok),
                   Reply("T1", W1, <<Result, Status(MessageStatus.Complete)>>)}),
      \* frames that violate the protocol
      Environment({Frame("T1", <<"REQUEST">>), Unparseable, NoThreadFrame},
                  {StatusReply("T1", W1, MessageStatus.Complete)}),
      \* with them a frame whose "thread" is the empty string, and one whose
      \* "osrf_msg" is an empty array or is missing
      Environment({LongThreadFrame, Undecodable,
                   Text(100, TRUE, EmptyThread, 0, "svc", <<"REQUEST">>),
                   Frame("T1", <<>>)}, {}),
      \* single Requests on three threads
      Environment({Frame("T1", <<"REQUEST">>), Frame("T2", <<"REQUEST">>),
                   Frame("T3", <<"REQUEST">>)},
                  {StatusReply("T1", W1, MessageStatus.Complete)}),
      \* envelopes that wait in the channel one behind the other
      [Environment({Frame("T1", <<"REQUEST">>)},
                   {Reply("T1", W1, <<Result>>),
                    Reply("T1", W1, <<Result, Status(MessageStatus.Complete)>>),
                    StatusReply("T2", W2, MessageStatus.Complete)})
          EXCEPT !.channel = MaxChannel + 1] }

\* A connected conversation on one thread, whose worker may run into its
\* keepalive timeout, and a Request on another thread.
AuditEnvironment ==
    [Environment({Frame("T1", <<"CONNECT">>), Frame("T2", <<"REQUEST">>)},
                 {StatusReply("T1", W1, MessageStatus.Ok),
                  StatusReply("T1", W1, MessageStatus.Timeout)})
        EXCEPT !.audit = TRUE]

TimedEnvironment ==
    Environment({Frame("T1", <<"REQUEST">>)},
                {StatusReply("T1", W1, MessageStatus.Complete)})

WsMessages == UNION {e.sends : e \in Environments}
Replies == UNION {e.replies : e \in Environments}

(***************************************************************************)
(* ChannelMessage                                                          *)
(***************************************************************************)
NoTm == TransportMessage(NoAddr, NoAddr, NoThread, <<>>, NoAddr)
Inbound(m) == [tag |-> "Inbound", msg |-> m, tm |-> NoTm]
Outbound(tm) == [tag |-> "Outbound", msg |-> Control("None"), tm |-> tm]
Wakeup == [tag |-> "Wakeup", msg |-> Control("None"), tm |-> NoTm]

(***************************************************************************)
(* What a worker receives: envelopes whose inner messages carry a          *)
(* thread_trace and, for a Request, a method name and a number of params.  *)
(***************************************************************************)
NoMethod == "nomethod"
ApiMessage(mtype, method, params) ==
    [mtype |-> mtype, thread_trace |-> 0, method |-> method, params |-> params]
Connect == ApiMessage("CONNECT", NoMethod, 0)
Disconnect == ApiMessage("DISCONNECT", NoMethod, 0)
Request(method, params) == ApiMessage("REQUEST", method, params)
Unexpected == ApiMessage("STATUS", NoMethod, 0)

\* The registry of the service: method name -> ParamCount::Exact(n).
methods == [echo |-> 1]
NoSuchMethod == "no.such"

\* The clients of one worker: the threads they use and the inner message
\* lists they send.  Each behaviour of the worker model has one of these.
\* Request(NoMethod, 0) is a Request without a method payload.
WorkerEnvironment(threads, bodies) == [threads |-> threads, bodies |-> bodies]

WorkerEnvironments ==
    { \* a stateful conversation
      WorkerEnvironment({"T1"}, {<<Connect>>, <<Request("echo", 1)>>, <<Disconnect>>}),
      \* requests that are refused
      WorkerEnvironment({"T1"}, {<<Connect>>, <<Request("echo", 2)>>,
                                 <<Request(NoSuchMethod, 0)>>, <<Request(NoMethod, 0)>>}),
      \* a second thread
      WorkerEnvironment({"T1", "T2"}, {<<Connect>>, <<Request("echo", 1)>>}),
      \* envelopes of several messages
      WorkerEnvironment({"T1"}, {<<Connect, Request("echo", 1)>>,
                                 <<Request("echo", 1), Request("echo", 1)>>,
                                 <<Disconnect, Request("echo", 1)>>,
                                 <<Disconnect, Disconnect>>}),
      \* messages a worker does not expect
      WorkerEnvironment({"T1"}, {<<Connect>>, <<Unexpected>>, <<Disconnect>>}) }

Bodies == UNION {e.bodies : e \in WorkerEnvironments}

\* The clients number their messages: thread_trace increases with each one.
Stamp(body, trace) ==
    [i \in 1 .. Len(body) |-> [body[i] EXCEPT !.thread_trace = trace + i - 1]]

\* What a method handler does with the session before it returns.
HandlerOutcome(completes, fails) == [completes |-> completes, fails |-> fails]
HandlerOutcomes == {HandlerOutcome(c, f) : c \in BOOLEAN, f \in BOOLEAN}

\* One outcome for each message of a body that reaches a handler.
Dispatched(msg) ==
    /\ msg.mtype = "REQUEST"
    /\ msg.method \in DOMAIN methods
    /\ methods[msg.method] = msg.params
Outcomes(body) ==
    {o \in [1 .. Len(body) -> HandlerOutcomes] :
        \A i \in 1 .. Len(body) : ~Dispatched(body[i]) => o[i] = HandlerOutcome(FALSE, FALSE)}

\* Messages a worker sends.
\* A Status whose text quotes the name of a method: text is that name,
\* NoMethod for a text that quotes none.
StatusText(trace, code, text) ==
    [mtype |-> "STATUS", thread_trace |-> trace, code |-> code, text |-> text]
StatusMessage(trace, code) == StatusText(trace, code, NoMethod)
ResultMessage(trace) == [mtype |-> "RESULT", thread_trace |-> trace, code |-> 0]

ServerSession(thread, last_thread_trace, sender) ==
    [thread |-> thread, last_thread_trace |-> last_thread_trace, sender |-> sender,
     responded_complete |-> FALSE]
NoSession == ServerSession(NoThread, 0, NoAddr)

(***************************************************************************)
(* State of one gateway session (struct Session and its two child threads) *)
(***************************************************************************)
VARIABLES
    shutdown_server,    \* Arc<AtomicBool> set by SIGTERM / SIGINT
    shutdown_session,   \* Arc<AtomicBool> shared by the three session threads
    shutdown_timer,     \* Option<util::Timer>: -1 for None, else its age in seconds
    osrf_sessions,      \* HashMap thread -> cached recipient (NoAddr: no entry)
    reqs_in_flight,     \* usize
    request_queue,      \* VecDeque<String>: the backlog
    to_main,            \* the mpsc channel read by the main thread
    main_pc,            \* position of the main thread in listen and shutdown
    in_pc,              \* position of SessionInbound::run
    out_pc,             \* position of SessionOutbound::run
    bus_out,            \* envelopes put on the bus by the latest loop iteration
    ws_out,             \* websocket messages written by the latest loop iteration
    close_sent,         \* the main thread has written its Close frame
    clock,              \* wall-clock bookkeeping, see Tick
    env,                \* the environment of this session, see Environments
    late_forwards,      \* websocket messages forwarded with shutdown_session set
    in_flight_trace,    \* reqs_in_flight at the start and after each channel
                        \* message, while the messages follow HappyPath
    outstanding         \* thread -> Connect/Request messages put on the bus whose
                        \* terminal Status has not been relayed back

gateway_vars ==
    <<shutdown_server, shutdown_session, shutdown_timer, osrf_sessions,
      reqs_in_flight, request_queue, to_main, main_pc, in_pc, out_pc,
      bus_out, ws_out, close_sent, clock, env, late_forwards, in_flight_trace,
      outstanding>>

(***************************************************************************)
(* State of one worker (struct Worker and the locals of Worker::listen)    *)
(***************************************************************************)
VARIABLES
    connected,          \* bool: in a stateful conversation
    session,            \* Option<ServerSession>: NoSession for None
    requests,           \* u32 local of listen
    worker_pc,          \* position of the worker thread in listen
    stopping,           \* Arc<AtomicBool> shared with the supervisor
    parent_open,        \* the receiver of to_parent_tx is alive
    local_queue,        \* envelopes waiting at the worker's own bus address
    sent,               \* envelopes the latest receive cycle put on the bus
    events,             \* state events the latest cycle published to the parent
    hooks,              \* ApplicationWorker hooks the latest cycle called
    thread_trace,       \* the thread_trace the clients stamp on their next message
    terminal_sent,      \* (thread, thread_trace) -> terminal Status messages sent
    received            \* the envelope the latest receive cycle handled, with the
                        \* outcomes of its handlers (NoTm: none)

worker_vars ==
    <<connected, session, requests, worker_pc, stopping, parent_open, local_queue,
      sent, events, hooks, thread_trace, terminal_sent, received>>

(***************************************************************************)
(* State of the gateway process (struct Server, the locals of Server::run  *)
(* and ServerInbound::run, the thread pool)                                *)
(***************************************************************************)
VARIABLES
    max_clients,        \* usize: Server::max_clients
    inbound_pc,         \* position of the ServerInbound thread
    server_pc,          \* position of the main thread in Server::run
    to_main_rx,         \* the mpsc channel of accepted clients
    accepted,           \* number of clients ServerInbound has accepted
    pool_active,        \* clients whose Session::run a pool thread executes
    pool_queued,        \* clients whose Session::run waits for a pool thread
    started,            \* clients whose Session::run has been started
    refused,            \* clients Server::run has shut down
    exit_code           \* exit status of the process (NoExit: still running)

server_vars ==
    <<max_clients, inbound_pc, server_pc, to_main_rx, accepted, pool_active,
      pool_queued, started, refused, exit_code>>

(***************************************************************************)
(* A call of evergreen::util::json_bool                                    *)
(***************************************************************************)
VARIABLES
    value,              \* &JsonValue: the argument of the call
    returned            \* how the call has ended (NoResult: not yet)

util_vars == <<value, returned>>

vars == <<gateway_vars, worker_vars, server_vars, util_vars>>

\* exit_code of a process that has not exited.
NoExit == -1

\* The part of the session the handlers of the main thread read and write.
Session ==
    [reqs_in_flight |-> reqs_in_flight, osrf_sessions |-> osrf_sessions,
     request_queue |-> request_queue, shutdown_session |-> shutdown_session,
     bus_out |-> <<>>, ws_out |-> <<>>, ok |-> TRUE]

Err(s) == [s EXCEPT !.ok = FALSE]

(***************************************************************************)
(* Session::relay_to_osrf                                                  *)
(***************************************************************************)
\* Mutant: without a cached recipient the envelope goes straight to the
\* service address, with no router override.
resolve_recipient_direct(sessions, thread, service) ==
    IF sessions[thread] # NoAddr
    THEN [recipient |-> sessions[thread], send_to_router |-> NoAddr]
    ELSE [recipient |-> ServiceAddress(service), send_to_router |-> NoAddr]

\* The recipient and the router override, resolved from the cache.
resolve_recipient(sessions, thread, service) ==
    IF sessions[thread] # NoAddr
    THEN [recipient |-> sessions[thread], send_to_router |-> NoAddr]
    ELSE [recipient |-> ServiceAddress(service),
          send_to_router |-> RouterAddress(GatewayAddress.domain)]

\* Mutant: a Disconnect gives its slot back.
relay_one_dec(s, thread, mtype) ==
    CASE mtype = "CONNECT" -> [s EXCEPT !.reqs_in_flight = @ + 1]
      [] mtype = "REQUEST" -> [s EXCEPT !.reqs_in_flight = @ + 1]
      [] mtype = "DISCONNECT" ->
            [s EXCEPT !.osrf_sessions[thread] = NoAddr,
                      !.reqs_in_flight = IF @ > 0 THEN @ - 1 ELSE @]
      [] OTHER -> Err(s)

\* The effect of one inner message on the counter and on the cache.
relay_one(s, thread, mtype) ==
    CASE mtype = "CONNECT" -> [s EXCEPT !.reqs_in_flight = @ + 1]
      [] mtype = "REQUEST" -> [s EXCEPT !.reqs_in_flight = @ + 1]
      [] mtype = "DISCONNECT" -> [s EXCEPT !.osrf_sessions[thread] = NoAddr]
      [] OTHER -> Err(s)

RECURSIVE relay_body(_, _, _, _)
\* The loop over msg_list: array_remove(0) until it yields null.
relay_body(s, thread, msg_list, body_vec) ==
    IF msg_list = <<>> \/ Head(msg_list) = "NULL"
    THEN [s |-> s, body |-> body_vec]
    ELSE IF Head(msg_list) = "BAD"
    THEN [s |-> Err(s), body |-> body_vec]
    ELSE LET r == relay_one(s, thread, Head(msg_list))
         IN  IF r.ok
             THEN relay_body(r, thread, Tail(msg_list),
                             Append(body_vec, Message(Head(msg_list))))
             ELSE [s |-> r, body |-> body_vec]

\* An entry of bus_out: the envelope sent, and for the record the frame it was
\* built from and the cache entry its thread had when relay_to_osrf was entered.
BusSend(tm, cached, text) == [tm |-> tm, cached |-> cached, text |-> text]

\* Mutant: the recipient is resolved once the messages have been looked at.
relay_to_osrf_late(s, text) ==
    IF ~text.parses THEN Err(s)
    ELSE IF text.thread = NoThread THEN Err(s)
    ELSE IF text.tlen > MAX_THREAD_SIZE THEN Err(s)
    ELSE IF text.service = NoService THEN Err(s)
    ELSE LET r == relay_body(s, text.thread, text.msgs, <<>>)
             to == resolve_recipient(r.s.osrf_sessions, text.thread, text.service)
             tm == TransportMessage(to.recipient, GatewayAddress, text.thread,
                                    r.body, to.send_to_router)
         IN  IF r.s.ok
             THEN [r.s EXCEPT !.bus_out =
                       Append(@, BusSend(tm, s.osrf_sessions[text.thread], text))]
             ELSE r.s

relay_to_osrf(s, text) ==
    IF ~text.parses THEN Err(s)
    ELSE IF text.thread = NoThread THEN Err(s)
    ELSE IF text.tlen > MAX_THREAD_SIZE THEN Err(s)
    ELSE IF text.service = NoService THEN Err(s)
    ELSE LET to == resolve_recipient(s.osrf_sessions, text.thread, text.service)
             r == relay_body(s, text.thread, text.msgs, <<>>)
             tm == TransportMessage(to.recipient, GatewayAddress, text.thread,
                                    r.body, to.send_to_router)
         IN  IF r.s.ok
             THEN [r.s EXCEPT !.bus_out =
                       Append(@, BusSend(tm, s.osrf_sessions[text.thread], text))]
             ELSE r.s

(***************************************************************************)
(* Session::process_message_queue                                          *)
(***************************************************************************)
RECURSIVE process_message_queue_back(_)
\* Mutant: the backlog is emptied from its tail.
process_message_queue_back(s) ==
    IF s.reqs_in_flight < max_parallel /\ s.request_queue # <<>>
    THEN LET n == Len(s.request_queue)
             r == relay_to_osrf([s EXCEPT !.request_queue = SubSeq(@, 1, n - 1)],
                                s.request_queue[n])
         IN  IF r.ok THEN process_message_queue_back(r) ELSE r
    ELSE s

RECURSIVE process_message_queue(_)
process_message_queue(s) ==
    IF s.reqs_in_flight < max_parallel /\ s.request_queue # <<>>
    THEN LET r == relay_to_osrf([s EXCEPT !.request_queue = Tail(@)],
                                Head(s.request_queue))
         IN  IF r.ok THEN process_message_queue(r) ELSE r
    ELSE s

(***************************************************************************)
(* Session::handle_inbound_message                                         *)
(***************************************************************************)
WsOut(kind, thread, body, keys) ==
    [kind |-> kind, thread |-> thread, body |-> body, keys |-> keys]

\* Mutant: the backlog test is off by one.
handle_inbound_message_gt(s, msg) ==
    CASE msg.kind = "Text" ->
            IF msg.size >= MAX_MESSAGE_SIZE THEN s
            ELSE IF Len(s.request_queue) > MAX_BACKLOG_SIZE THEN s
            ELSE [s EXCEPT !.request_queue = Append(@, msg)]
      [] msg.kind = "Ping" ->
            [s EXCEPT !.ws_out = Append(@, WsOut("Pong", NoThread, <<>>, {}))]
      [] msg.kind = "Close" -> [s EXCEPT !.shutdown_session = TRUE]
      [] OTHER -> s

handle_inbound_message(s, msg) ==
    CASE msg.kind = "Text" ->
            IF msg.size >= MAX_MESSAGE_SIZE THEN s
            ELSE IF Len(s.request_queue) >= MAX_BACKLOG_SIZE THEN s
            ELSE [s EXCEPT !.request_queue = Append(@, msg)]
      [] msg.kind = "Ping" ->
            [s EXCEPT !.ws_out = Append(@, WsOut("Pong", NoThread, <<>>, {}))]
      [] msg.kind = "Close" -> [s EXCEPT !.shutdown_session = TRUE]
      [] OTHER -> s

(***************************************************************************)
(* Session::relay_to_websocket                                             *)
(***************************************************************************)
decrement(n) == IF n > 0 THEN n - 1 ELSE n

\* Mutant: an Ok caches the sender and leaves the counter alone.
relay_status_held(r, tm, msg) ==
    IF msg.mtype # "STATUS" THEN r
    ELSE IF msg.code = MessageStatus.Ok
    THEN [r EXCEPT !.s.osrf_sessions[tm.thread] = tm.from]
    ELSE IF msg.code = MessageStatus.Complete
    THEN [r EXCEPT !.s.reqs_in_flight = decrement(@)]
    ELSE IF msg.code >= MessageStatus.BadRequest
    THEN [r EXCEPT !.s.reqs_in_flight = decrement(@),
                   !.s.osrf_sessions[tm.thread] = NoAddr,
                   !.te = TRUE]
    ELSE r

\* Mutant: an Ok keeps the entry the thread already has.
relay_status_first(r, tm, msg) ==
    IF msg.mtype # "STATUS" THEN r
    ELSE IF msg.code = MessageStatus.Ok
    THEN [r EXCEPT !.s.reqs_in_flight = decrement(@),
                   !.s.osrf_sessions[tm.thread] = IF @ = NoAddr THEN tm.from ELSE @]
    ELSE IF msg.code = MessageStatus.Complete
    THEN [r EXCEPT !.s.reqs_in_flight = decrement(@)]
    ELSE IF msg.code >= MessageStatus.BadRequest
    THEN [r EXCEPT !.s.reqs_in_flight = decrement(@),
                   !.s.osrf_sessions[tm.thread] = NoAddr,
                   !.te = TRUE]
    ELSE r

\* Mutant: an error status is flagged but the cache entry stays.
relay_status_keep(r, tm, msg) ==
    IF msg.mtype # "STATUS" THEN r
    ELSE IF msg.code = MessageStatus.Ok
    THEN [r EXCEPT !.s.reqs_in_flight = decrement(@),
                   !.s.osrf_sessions[tm.thread] = tm.from]
    ELSE IF msg.code = MessageStatus.Complete
    THEN [r EXCEPT !.s.reqs_in_flight = decrement(@)]
    ELSE IF msg.code >= MessageStatus.BadRequest
    THEN [r EXCEPT !.s.reqs_in_flight = decrement(@),
                   !.te = TRUE]
    ELSE r

\* The effect of one message of the envelope: r.s is the session, r.te is
\* the transport_error flag.
relay_status(r, tm, msg) ==
    IF msg.mtype # "STATUS" THEN r
    ELSE IF msg.code = MessageStatus.Ok
    THEN [r EXCEPT !.s.reqs_in_flight = decrement(@),
                   !.s.osrf_sessions[tm.thread] = tm.from]
    ELSE IF msg.code = MessageStatus.Complete
    THEN [r EXCEPT !.s.reqs_in_flight = decrement(@)]
    ELSE IF msg.code >= MessageStatus.BadRequest
    THEN [r EXCEPT !.s.reqs_in_flight = decrement(@),
                   !.s.osrf_sessions[tm.thread] = NoAddr,
                   !.te = TRUE]
    ELSE r

RECURSIVE relay_statuses_stacked(_, _, _)
\* Mutant: each message is put in front of those already in the array.
relay_statuses_stacked(r, tm, msg_list) ==
    IF msg_list = <<>> THEN r
    ELSE relay_statuses_stacked(
             [relay_status(r, tm, Head(msg_list)) EXCEPT !.body = <<Head(msg_list)>> \o @],
             tm, Tail(msg_list))

RECURSIVE relay_statuses(_, _, _)
\* The loop over tm.body(): the effect of each message, and its push onto
\* the osrf_msg array r.body.
relay_statuses(r, tm, msg_list) ==
    IF msg_list = <<>> THEN r
    ELSE relay_statuses(
             [relay_status(r, tm, Head(msg_list)) EXCEPT !.body = Append(@, Head(msg_list))],
             tm, Tail(msg_list))

relay_to_websocket(s, tm) ==
    LET r == relay_statuses([s |-> s, te |-> FALSE, body |-> <<>>], tm, tm.body)
        keys == {"oxrf_xid", "thread", "osrf_msg"}
                \cup (IF r.te THEN {"transport_error"} ELSE {})
    IN  [r.s EXCEPT !.ws_out = Append(@, WsOut("Text", tm.thread, r.body, keys))]

(***************************************************************************)
(* Session::check_shutdown.  Returns the flag and the timer it leaves and  *)
(* its boolean result.                                                     *)
(***************************************************************************)
timer_done(age) == age >= SHUTDOWN_MAX_WAIT

\* Mutant: once the timer runs the loop exits whether or not work remains.
check_shutdown_eager ==
    LET flag == shutdown_server \/ shutdown_session
    IN  IF ~flag
        THEN [shutdown_session |-> shutdown_session, shutdown_timer |-> shutdown_timer,
              result |-> FALSE]
        ELSE IF shutdown_timer # -1
        THEN [shutdown_session |-> TRUE, shutdown_timer |-> shutdown_timer,
              result |-> TRUE]
        ELSE [shutdown_session |-> TRUE, shutdown_timer |-> 0, result |-> FALSE]

check_shutdown ==
    LET flag == shutdown_server \/ shutdown_session
    IN  IF ~flag
        THEN [shutdown_session |-> shutdown_session, shutdown_timer |-> shutdown_timer,
              result |-> FALSE]
        ELSE IF shutdown_timer # -1
        THEN [shutdown_session |-> TRUE, shutdown_timer |-> shutdown_timer,
              result |-> IF timer_done(shutdown_timer) THEN TRUE
                         ELSE reqs_in_flight = 0 /\ Len(request_queue) = 0]
        ELSE [shutdown_session |-> TRUE, shutdown_timer |-> 0, result |-> FALSE]

(***************************************************************************)
(* Time.  With clock.on the model counts seconds: main_wait and out_wait   *)
(* are the seconds the main thread has spent in recv_timeout and the       *)
(* outbound thread in Bus::recv, since_shutdown the seconds since the      *)
(* server shutdown flag was set (-1 before).  With clock.on false time is  *)
(* abstracted: a wait may time out and a running timer may expire at any   *)
(* moment.                                                                 *)
(***************************************************************************)
ClockOff == [on |-> FALSE, main_wait |-> 0, out_wait |-> 0, since_shutdown |-> -1]
ClockOn == [on |-> TRUE, main_wait |-> 0, out_wait |-> 0, since_shutdown |-> -1]

GatewayInit ==
    /\ shutdown_server = FALSE
    /\ shutdown_session = FALSE
    /\ shutdown_timer = -1
    /\ osrf_sessions = [t \in Threads |-> NoAddr]
    /\ reqs_in_flight = 0
    /\ request_queue = <<>>
    /\ to_main = <<>>
    /\ main_pc = "check"
    /\ in_pc = "recv"
    /\ out_pc = "top"
    /\ bus_out = <<>>
    /\ ws_out = <<>>
    /\ close_sent = FALSE
    /\ late_forwards = 0
    /\ in_flight_trace = <<reqs_in_flight>>
    /\ outstanding = [t \in Threads |-> 0]

\* Worker::new, and the worker thread about to call listen.
WorkerInit ==
    /\ connected = FALSE
    /\ session = NoSession
    /\ requests = 0
    /\ worker_pc = "start"
    /\ stopping = FALSE
    /\ parent_open = TRUE
    /\ local_queue = <<>>
    /\ sent = <<>>
    /\ events = <<>>
    /\ hooks = <<>>
    /\ thread_trace = 1
    /\ terminal_sent = [p \in Threads \X (0 .. MaxTrace) |-> 0]
    /\ received = NoTm

(***************************************************************************)
(* json::JsonValue, as json_bool reads it.  A number is an integer; a       *)
(* character of a string is its text and the number of bytes of its UTF-8  *)
(* encoding.                                                               *)
(***************************************************************************)
Char(text, bytes) == [text |-> text, bytes |-> bytes]
Chars == {Char("t", 1), Char("T", 1), Char("f", 1), Char("r", 1), Char("0", 1),
          Char("e-acute", 2)}
JsonNull == [kind |-> "Null"]
JsonBoolean(b) == [kind |-> "Boolean", b |-> b]
JsonNumber(n) == [kind |-> "Number", n |-> n]
JsonString(chars) == [kind |-> "String", chars |-> chars]

Strings == UNION {[1 .. n -> Chars] : n \in 0 .. MaxLen}

JsonValues ==
    {JsonNull, JsonBoolean(TRUE), JsonBoolean(FALSE)}
    \cup {JsonNumber(n) : n \in -MaxNumber .. MaxNumber}
    \cup {JsonString(chars) : chars \in Strings}
    \cup {[kind |-> "Array", items |-> items] :
              items \in {<<>>, <<JsonBoolean(TRUE)>>, <<JsonNumber(1)>>,
                         <<JsonString(<<Char("t", 1), Char("r", 1)>>)>>}}
    \cup {[kind |-> "Object", keys |-> keys] : keys \in {{}, {"t"}}}

NoResult == "none"

\* The slice s[..1] of a string: its first byte if that is a whole
\* character; the slice panics inside a character of several bytes.
first_byte(chars) == IF chars[1].bytes = 1 THEN chars[1].text ELSE "panic"

\* json_bool: as_i64 and as_f64 are Some for a Number, as_str for a String,
\* as_bool for a Boolean.
json_bool(v) ==
    IF v.kind = "Number" THEN (IF v.n # 0 THEN "true" ELSE "false")
    ELSE IF v.kind = "String"
    THEN IF Len(v.chars) > 0
         THEN (IF first_byte(v.chars) = "panic" THEN "panic"
               ELSE IF first_byte(v.chars) \in {"t", "T"} THEN "true" ELSE "false")
         ELSE "false"
    ELSE IF v.kind = "Boolean" THEN (IF v.b THEN "true" ELSE "false")
    ELSE "false"

\* No call of json_bool is under way.
UtilInit == value = JsonNull /\ returned = NoResult

\* The process after Server::new, before Server::run has bound or spawned
\* anything.
ServerInit(clients) ==
    /\ max_clients = clients
    /\ inbound_pc = "bind"
    /\ server_pc = "setup"
    /\ to_main_rx = <<>>
    /\ accepted = 0
    /\ pool_active = {}
    /\ pool_queued = <<>>
    /\ started = {}
    /\ refused = {}
    /\ exit_code = NoExit

Init ==
    /\ GatewayInit /\ clock = ClockOff /\ env \in Environments /\ WorkerInit
    /\ ServerInit(MAX_WS_CLIENTS) /\ UtilInit

TimedInit ==
    /\ GatewayInit /\ clock = ClockOn /\ env = TimedEnvironment /\ WorkerInit
    /\ ServerInit(MAX_WS_CLIENTS) /\ UtilInit

main_state ==
    <<osrf_sessions, reqs_in_flight, request_queue, bus_out, ws_out, env,
      late_forwards, in_flight_trace, outstanding, worker_vars, server_vars, util_vars>>

(***************************************************************************)
(* SessionInbound::run                                                     *)
(***************************************************************************)
\* Mutant: the thread pushes its Wakeup and leaves the flag as it is.
finish_unflagged ==
    /\ shutdown_session' = shutdown_session
    /\ to_main' = Append(to_main, Wakeup)

\* SessionInbound::finish and SessionOutbound::finish
finish ==
    /\ shutdown_session' = TRUE
    /\ to_main' = Append(to_main, Wakeup)

\* A websocket message arrives and is forwarded to the main thread.
InboundRecv(m) ==
    /\ in_pc = "recv"
    /\ m \in env.sends
    /\ Len(to_main) < env.channel
    /\ to_main' = Append(to_main, Inbound(m))
    /\ in_pc' = "check"
    /\ late_forwards' = IF shutdown_session THEN late_forwards + 1 ELSE late_forwards
    /\ UNCHANGED <<shutdown_server, shutdown_session, shutdown_timer, osrf_sessions,
                   reqs_in_flight, request_queue, bus_out, ws_out, env,
                   main_pc, out_pc, close_sent, clock, in_flight_trace, outstanding,
                   worker_vars, server_vars, util_vars>>

\* Mutant: the inbound thread goes back to read without looking at the flag.
inbound_stops_blind(flag) == FALSE

\* The test made after each forwarded message.
inbound_stops(flag) == flag

\* The check of shutdown_session before the next read.
InboundCheck ==
    /\ in_pc = "check"
    /\ IF inbound_stops(shutdown_session)
       THEN finish /\ in_pc' = "done"
       ELSE in_pc' = "recv" /\ UNCHANGED <<shutdown_session, to_main>>
    /\ UNCHANGED <<shutdown_server, shutdown_timer, main_state, main_pc, out_pc,
                   close_sent, clock>>

\* The websocket read fails (the connection is gone or was closed).
InboundError ==
    /\ in_pc = "recv"
    /\ finish
    /\ in_pc' = "done"
    /\ UNCHANGED <<shutdown_server, shutdown_timer, main_state, main_pc, out_pc,
                   close_sent, clock>>

(***************************************************************************)
(* SessionOutbound::run                                                    *)
(***************************************************************************)
OutboundCheck ==
    /\ out_pc = "top"
    /\ IF shutdown_session
       THEN finish /\ out_pc' = "done" /\ UNCHANGED clock
       ELSE /\ out_pc' = "recv"
            /\ clock' = [clock EXCEPT !.out_wait = 0]
            /\ UNCHANGED <<shutdown_session, to_main>>
    /\ UNCHANGED <<shutdown_server, shutdown_timer, main_state, main_pc, in_pc,
                   close_sent>>

OutboundRecv(tm) ==
    /\ out_pc = "recv"
    /\ tm \in env.replies
    /\ Len(to_main) < env.channel
    /\ to_main' = Append(to_main, Outbound(tm))
    /\ out_pc' = "top"
    /\ clock' = [clock EXCEPT !.out_wait = 0]
    /\ UNCHANGED <<shutdown_server, shutdown_session, shutdown_timer, main_state,
                   main_pc, in_pc, close_sent>>

\* Bus::recv returns None after SHUTDOWN_POLL_INTERVAL seconds.
OutboundTimeout ==
    /\ out_pc = "recv"
    /\ clock.on => clock.out_wait = SHUTDOWN_POLL_INTERVAL
    /\ out_pc' = "top"
    /\ clock' = [clock EXCEPT !.out_wait = 0]
    /\ UNCHANGED <<shutdown_server, shutdown_session, shutdown_timer, main_state,
                   to_main, main_pc, in_pc, close_sent>>

OutboundError ==
    /\ out_pc = "recv"
    /\ finish
    /\ out_pc' = "done"
    /\ clock' = [clock EXCEPT !.out_wait = 0]
    /\ UNCHANGED <<shutdown_server, shutdown_timer, main_state, main_pc, in_pc,
                   close_sent>>

(***************************************************************************)
(* Session::listen and Session::shutdown                                   *)
(***************************************************************************)
\* The top of the loop: check_shutdown.
MainCheck ==
    /\ main_pc = "check"
    /\ shutdown_session' = check_shutdown.shutdown_session
    /\ shutdown_timer' = check_shutdown.shutdown_timer
    /\ main_pc' = IF check_shutdown.result THEN "return_shutdown" ELSE "recv"
    /\ bus_out' = <<>>
    /\ ws_out' = <<>>
    /\ UNCHANGED <<shutdown_server, osrf_sessions, reqs_in_flight, request_queue,
                   env, late_forwards, to_main, in_pc, out_pc, close_sent, clock,
                   in_flight_trace, outstanding, worker_vars, server_vars, util_vars>>

\* The channel messages of a connected conversation on one thread: Connect,
\* Status(Ok), Request, Result with Status(Complete), Disconnect.
HappyPath ==
    <<Inbound(Frame("T1", <<"CONNECT">>)),
      Outbound(StatusReply("T1", W1, MessageStatus.Ok)),
      Inbound(Frame("T1", <<"REQUEST">>)),
      Outbound(Reply("T1", W1, <<Result, Status(MessageStatus.Complete)>>)),
      Inbound(Frame("T1", <<"DISCONNECT">>))>>

\* The trace after channel_msg has left the session as s: one value longer if
\* channel_msg is the next message of HappyPath, empty once the messages have
\* left the path.
follow(trace, channel_msg, s) ==
    IF /\ trace # <<>>
       /\ Len(trace) <= Len(HappyPath)
       /\ channel_msg = HappyPath[Len(trace)]
       /\ s.ok
    THEN Append(trace, s.reqs_in_flight)
    ELSE <<>>

\* The messages still unanswered on each thread after channel_msg has left
\* the session as s: an envelope relayed back settles, for its own thread,
\* one message per Status(Ok), Status(Complete) or Status of a code of
\* BadRequest and above; each Connect and Request of the envelopes put on
\* the bus is added to its thread.  The count of a thread stops at
\* max_parallel + 2.
account(unanswered, channel_msg, s) ==
    LET settled(tm) ==
            Cardinality({i \in 1 .. Len(tm.body) :
                /\ tm.body[i].mtype = "STATUS"
                /\ \/ tm.body[i].code \in {MessageStatus.Ok, MessageStatus.Complete}
                   \/ tm.body[i].code >= MessageStatus.BadRequest})
        sent_messages ==
            UNION {{<<i, k>> : k \in 1 .. Len(s.bus_out[i].tm.body)} :
                      i \in 1 .. Len(s.bus_out)}
        relayed(t) ==
            Cardinality({p \in sent_messages :
                /\ s.bus_out[p[1]].tm.thread = t
                /\ s.bus_out[p[1]].tm.body[p[2]].mtype \in {"CONNECT", "REQUEST"}})
        left(t) ==
            IF channel_msg.tag = "Outbound" /\ channel_msg.tm.thread = t
            THEN IF unanswered[t] > settled(channel_msg.tm)
                 THEN unanswered[t] - settled(channel_msg.tm) ELSE 0
            ELSE unanswered[t]
        total(t) == left(t) + relayed(t)
    IN  [t \in Threads |-> IF total(t) > max_parallel + 2 THEN max_parallel + 2 ELSE total(t)]

\* Mutant: the backlog is drained only after a websocket message.
listen_step_inbound(s, channel_msg) ==
    LET h == CASE channel_msg.tag = "Inbound" ->
                      handle_inbound_message(s, channel_msg.msg)
               [] channel_msg.tag = "Outbound" ->
                      relay_to_websocket(s, channel_msg.tm)
               [] OTHER -> s
    IN  IF h.ok /\ channel_msg.tag = "Inbound" THEN process_message_queue(h) ELSE h

\* One channel message: its handler, then process_message_queue.
listen_step(s, channel_msg) ==
    LET h == CASE channel_msg.tag = "Inbound" ->
                      handle_inbound_message(s, channel_msg.msg)
               [] channel_msg.tag = "Outbound" ->
                      relay_to_websocket(s, channel_msg.tm)
               [] OTHER -> s
    IN  IF h.ok THEN process_message_queue(h) ELSE h

MainRecv ==
    /\ main_pc = "recv"
    /\ to_main # <<>>
    /\ LET s == listen_step(Session, Head(to_main))
       IN  /\ reqs_in_flight' = s.reqs_in_flight
           /\ osrf_sessions' = s.osrf_sessions
           /\ request_queue' = s.request_queue
           /\ shutdown_session' = s.shutdown_session
           /\ bus_out' = s.bus_out
           /\ ws_out' = s.ws_out
           /\ main_pc' = IF s.ok THEN "check" ELSE "return_error"
           /\ in_flight_trace' = follow(in_flight_trace, Head(to_main), s)
           /\ outstanding' = IF env.audit THEN account(outstanding, Head(to_main), s)
                             ELSE outstanding
    /\ to_main' = Tail(to_main)
    /\ clock' = [clock EXCEPT !.main_wait = 0]
    /\ UNCHANGED <<shutdown_server, shutdown_timer, in_pc, out_pc, close_sent, env,
                   late_forwards, worker_vars, server_vars, util_vars>>

\* recv_timeout returns Timeout after SHUTDOWN_POLL_INTERVAL seconds.
MainTimeout ==
    /\ main_pc = "recv"
    /\ to_main = <<>>
    /\ clock.on => clock.main_wait = SHUTDOWN_POLL_INTERVAL
    /\ main_pc' = "check"
    /\ clock' = [clock EXCEPT !.main_wait = 0]
    /\ UNCHANGED <<shutdown_server, shutdown_session, shutdown_timer, main_state,
                   to_main, in_pc, out_pc, close_sent>>

\* Session::shutdown up to the first join.
MainShutdown ==
    /\ main_pc \in {"return_shutdown", "return_error"}
    /\ shutdown_session' = TRUE
    /\ close_sent' = TRUE
    /\ main_pc' = "join_in"
    /\ UNCHANGED <<shutdown_server, shutdown_timer, main_state, to_main, in_pc,
                   out_pc, clock>>

MainJoinIn ==
    /\ main_pc = "join_in"
    /\ in_pc = "done"
    /\ main_pc' = "join_out"
    /\ UNCHANGED <<shutdown_server, shutdown_session, shutdown_timer, main_state,
                   to_main, in_pc, out_pc, close_sent, clock>>

MainJoinOut ==
    /\ main_pc = "join_out"
    /\ out_pc = "done"
    /\ main_pc' = "done"
    /\ UNCHANGED <<shutdown_server, shutdown_session, shutdown_timer, main_state,
                   to_main, in_pc, out_pc, close_sent, clock>>

(***************************************************************************)
(* The environment: SIGTERM / SIGINT, and the passage of time              *)
(***************************************************************************)
SetServerShutdown ==
    /\ ~shutdown_server
    /\ shutdown_server' = TRUE
    /\ clock' = IF clock.on THEN [clock EXCEPT !.since_shutdown = 0] ELSE clock
    /\ UNCHANGED <<shutdown_session, shutdown_timer, main_state, to_main, main_pc,
                   in_pc, out_pc, close_sent>>

\* A thread that can take a step without waiting takes it before time passes.
Urgent ==
    \/ main_pc \in {"check", "return_shutdown", "return_error"}
    \/ main_pc = "recv" /\ to_main # <<>>
    \/ main_pc = "join_in" /\ in_pc = "done"
    \/ main_pc = "join_out" /\ out_pc = "done"
    \/ in_pc = "check"
    \/ out_pc = "top"

Tick ==
    /\ clock.on
    /\ ~Urgent
    /\ main_pc = "recv" => clock.main_wait < SHUTDOWN_POLL_INTERVAL
    /\ out_pc = "recv" => clock.out_wait < SHUTDOWN_POLL_INTERVAL
    /\ shutdown_timer' = IF shutdown_timer \in 0 .. (SHUTDOWN_MAX_WAIT - 1)
                         THEN shutdown_timer + 1 ELSE shutdown_timer
    /\ clock' = [clock EXCEPT
                   !.main_wait = IF main_pc = "recv" THEN @ + 1 ELSE @,
                   !.out_wait = IF out_pc = "recv" THEN @ + 1 ELSE @,
                   !.since_shutdown = IF @ \in 0 .. SHUTDOWN_MAX_WAIT THEN @ + 1 ELSE @]
    /\ UNCHANGED <<shutdown_server, shutdown_session, main_state, to_main, main_pc,
                   in_pc, out_pc, close_sent>>

\* Abstract time: the running timer expires.
Elapse ==
    /\ ~clock.on
    /\ shutdown_timer \in 0 .. (SHUTDOWN_MAX_WAIT - 1)
    /\ shutdown_timer' = SHUTDOWN_MAX_WAIT
    /\ UNCHANGED <<shutdown_server, shutdown_session, main_state, to_main, main_pc,
                   in_pc, out_pc, close_sent, clock>>

Threads3 ==
    \/ \E m \in WsMessages : InboundRecv(m)
    \/ InboundCheck
    \/ InboundError
    \/ OutboundCheck
    \/ \E tm \in Replies : OutboundRecv(tm)
    \/ OutboundTimeout
    \/ OutboundError
    \/ MainCheck
    \/ MainRecv
    \/ MainTimeout
    \/ MainShutdown
    \/ MainJoinIn
    \/ MainJoinOut
    \/ SetServerShutdown

Next == Threads3 \/ Elapse

Spec == Init /\ [][Next]_vars

TimedNext == Threads3 \/ Tick

TimedSpec == TimedInit /\ [][TimedNext]_vars

\* The session with its threads scheduled: the main thread is not held up
\* for ever while it has a step to take, and the time of a running timer
\* passes.
FairInit ==
    /\ GatewayInit /\ clock = ClockOff /\ env = TimedEnvironment /\ WorkerInit
    /\ ServerInit(MAX_WS_CLIENTS) /\ UtilInit

FairSpec ==
    /\ FairInit /\ [][Next]_vars
    /\ WF_vars(MainCheck \/ MainRecv \/ MainTimeout)
    /\ WF_vars(Elapse)

\* The session in the environment whose unanswered messages are counted.
AuditInit ==
    /\ GatewayInit /\ clock = ClockOff /\ env = AuditEnvironment /\ WorkerInit
    /\ ServerInit(MAX_WS_CLIENTS) /\ UtilInit

AuditSpec == AuditInit /\ [][Next]_vars

(***************************************************************************)
(* The worker: Worker::reply_with_status, reply_bad_request,               *)
(* reply_server_error, and the ServerSession calls of a handler            *)
(***************************************************************************)
WorkerAddress == W1

\* The part of the worker the handlers read and write, with what one pass
\* through the loop of listen has produced so far.
Worker ==
    [connected |-> connected, session |-> session, local_queue |-> local_queue,
     requests |-> requests, pc |-> worker_pc, sent |-> <<>>, events |-> <<>>,
     hooks |-> <<>>, received |-> NoTm, panicked |-> FALSE, ok |-> TRUE]

\* TransportMessage::with_body to the sender of the session, and Bus::send.
send(w, msg) ==
    [w EXCEPT !.sent = Append(@, TransportMessage(w.session.sender, WorkerAddress,
                                                  w.session.thread, <<msg>>, NoAddr))]

reply_with_status(w, stat, stat_text) ==
    send(w, StatusText(w.session.last_thread_trace, stat, stat_text))

reply_bad_request(w, text) ==
    send([w EXCEPT !.connected = FALSE],
         StatusText(w.session.last_thread_trace, MessageStatus.BadRequest, text))

reply_server_error(w, text) ==
    send([w EXCEPT !.connected = FALSE],
         StatusText(w.session.last_thread_trace, MessageStatus.InternalServerError, text))

\* ServerSession::respond and ServerSession::send_complete.
respond(w) == send(w, ResultMessage(w.session.last_thread_trace))

send_complete(w) ==
    send([w EXCEPT !.session.responded_complete = TRUE],
         StatusMessage(w.session.last_thread_trace, MessageStatus.Complete))

\* A method handler: it responds, completes the request itself or not, and
\* returns Ok or Err.
handler(w, outcome) ==
    IF outcome.completes THEN send_complete(respond(w)) ELSE respond(w)

\* Client::clear
clear(w) == [w EXCEPT !.local_queue = <<>>]

\* Mutant: reset leaves the bus queue as it is.
reset_uncleared(w) == [w EXCEPT !.connected = FALSE, !.session = NoSession]

\* Worker::reset
reset(w) == clear([w EXCEPT !.connected = FALSE, !.session = NoSession])

\* ParamCount::matches for ParamCount::Exact
ParamCountMatches(pcount, params) == pcount = params

(***************************************************************************)
(* Worker::handle_request, handle_message, handle_transport_message        *)
(***************************************************************************)
\* Mutant: a Request for a method the registry lacks goes unanswered.
handle_request_unanswered(w, msg, outcome) ==
    IF msg.method = NoMethod THEN reply_bad_request(w, NoMethod)
    ELSE LET c == IF ~w.connected THEN clear(w) ELSE w
         IN  IF msg.method \notin DOMAIN methods
             THEN c
             ELSE IF ~ParamCountMatches(methods[msg.method], msg.params)
             THEN reply_bad_request(c, msg.method)
             ELSE LET h == handler(c, outcome)
                  IN  IF outcome.fails THEN Err(reply_server_error(h, msg.method))
                      ELSE IF ~h.session.responded_complete THEN send_complete(h)
                      ELSE h

handle_request(w, msg, outcome) ==
    IF msg.method = NoMethod THEN reply_bad_request(w, NoMethod)
    ELSE LET c == IF ~w.connected THEN clear(w) ELSE w
         IN  IF msg.method \notin DOMAIN methods
             THEN reply_with_status(c, MessageStatus.MethodNotFound, msg.method)
             ELSE IF ~ParamCountMatches(methods[msg.method], msg.params)
             THEN reply_bad_request(c, msg.method)
             ELSE LET h == handler(c, outcome)
                  IN  IF outcome.fails THEN Err(reply_server_error(h, msg.method))
                      ELSE IF ~h.session.responded_complete THEN send_complete(h)
                      ELSE h

\* Mutant: the responded-complete mark of the session outlives the message
\* it was set for.
handle_message_marked(w, msg, outcome) ==
    IF w.session = NoSession
    THEN [w EXCEPT !.panicked = TRUE, !.ok = FALSE]
    ELSE LET s == [w EXCEPT !.session.last_thread_trace = msg.thread_trace]
         IN  CASE msg.mtype = "DISCONNECT" -> reset(s)
               [] msg.mtype = "CONNECT" ->
                     IF s.connected THEN reply_bad_request(s, NoMethod)
                     ELSE reply_with_status([s EXCEPT !.connected = TRUE],
                                            MessageStatus.Ok, NoMethod)
               [] msg.mtype = "REQUEST" -> handle_request(s, msg, outcome)
               [] OTHER -> reply_bad_request(s, NoMethod)

\* Mutant: a Connect is accepted whether or not the worker is connected.
handle_message_reconnect(w, msg, outcome) ==
    IF w.session = NoSession
    THEN [w EXCEPT !.panicked = TRUE, !.ok = FALSE]
    ELSE LET s == [w EXCEPT !.session.last_thread_trace = msg.thread_trace,
                            !.session.responded_complete = FALSE]
         IN  CASE msg.mtype = "DISCONNECT" -> reset(s)
               [] msg.mtype = "CONNECT" ->
                     reply_with_status([s EXCEPT !.connected = TRUE],
                                       MessageStatus.Ok, NoMethod)
               [] msg.mtype = "REQUEST" -> handle_request(s, msg, outcome)
               [] OTHER -> reply_bad_request(s, NoMethod)

handle_message(w, msg, outcome) ==
    IF w.session = NoSession
    THEN [w EXCEPT !.panicked = TRUE, !.ok = FALSE]
    ELSE LET s == [w EXCEPT !.session.last_thread_trace = msg.thread_trace,
                            !.session.responded_complete = FALSE]
         IN  CASE msg.mtype = "DISCONNECT" -> reset(s)
               [] msg.mtype = "CONNECT" ->
                     IF s.connected THEN reply_bad_request(s, NoMethod)
                     ELSE reply_with_status([s EXCEPT !.connected = TRUE],
                                            MessageStatus.Ok, NoMethod)
               [] msg.mtype = "REQUEST" -> handle_request(s, msg, outcome)
               [] OTHER -> reply_bad_request(s, NoMethod)

RECURSIVE handle_messages_all(_, _, _)
\* Mutant: the loop goes on after a message has failed.
handle_messages_all(w, body, outcomes) ==
    IF body = <<>> THEN w
    ELSE LET r == handle_message(w, Head(body), Head(outcomes))
         IN  IF r.panicked THEN r
             ELSE handle_messages_all([r EXCEPT !.ok = TRUE], Tail(body), Tail(outcomes))

RECURSIVE handle_messages(_, _, _)
\* The loop over tmsg.body(): it ends at the first error.
handle_messages(w, body, outcomes) ==
    IF body = <<>> THEN w
    ELSE LET r == handle_message(w, Head(body), Head(outcomes))
         IN  IF r.ok THEN handle_messages(r, Tail(body), Tail(outcomes)) ELSE r

handle_transport_message(w, tmsg, outcomes) ==
    LET s == IF w.session = NoSession \/ w.session.thread # tmsg.thread
             THEN [w EXCEPT !.session = ServerSession(tmsg.thread, 0, tmsg.from)]
             ELSE w
    IN  handle_messages(s, tmsg.body, outcomes)

(***************************************************************************)
(* Worker::listen                                                          *)
(***************************************************************************)
\* Worker::notify_state: the send fails when the parent is gone.
notify_state(w, state) ==
    IF parent_open THEN [w EXCEPT !.events = Append(@, state)] ELSE Err(w)

\* A hook of the ApplicationWorker, which returns Ok or Err.
call_hook(w, hook, hook_ok) == [w EXCEPT !.hooks = Append(@, hook), !.ok = hook_ok]

\* Mutant: the stop flag is not read.
end_of_cycle_deaf(w, work_occurred, hook_ok) ==
    IF w.connected THEN [w EXCEPT !.pc = "top"]
    ELSE LET h == IF work_occurred
                  THEN LET e == call_hook(w, "end_session", hook_ok)
                       IN  IF e.ok THEN notify_state(e, "Idle") ELSE e
                  ELSE call_hook(w, "worker_idle_wake", hook_ok)
         IN  IF ~h.ok THEN [h EXCEPT !.pc = "exit"]
             ELSE [h EXCEPT !.pc = "top", !.requests = @ + 1]

\* Mutant: the end of a conversation is not reported to the supervisor.
end_of_cycle_silent(w, work_occurred, hook_ok) ==
    IF w.connected THEN [w EXCEPT !.pc = "top"]
    ELSE LET h == IF work_occurred
                  THEN call_hook(w, "end_session", hook_ok)
                  ELSE call_hook(w, "worker_idle_wake", hook_ok)
         IN  IF ~h.ok \/ stopping THEN [h EXCEPT !.pc = "exit"]
             ELSE [h EXCEPT !.pc = "top", !.requests = @ + 1]

\* Mutant: a pass that handled nothing calls end_session as well.
end_of_cycle_ended(w, work_occurred, hook_ok) ==
    IF w.connected THEN [w EXCEPT !.pc = "top"]
    ELSE LET e == call_hook(w, "end_session", hook_ok)
             h == IF e.ok THEN notify_state(e, "Idle") ELSE e
         IN  IF ~h.ok \/ stopping THEN [h EXCEPT !.pc = "exit"]
             ELSE [h EXCEPT !.pc = "top", !.requests = @ + 1]

\* The loop body from "if self.connected { continue; }" to its end.
end_of_cycle(w, work_occurred, hook_ok) ==
    IF w.connected THEN [w EXCEPT !.pc = "top"]
    ELSE LET h == IF work_occurred
                  THEN LET e == call_hook(w, "end_session", hook_ok)
                       IN  IF e.ok THEN notify_state(e, "Idle") ELSE e
                  ELSE call_hook(w, "worker_idle_wake", hook_ok)
         IN  IF ~h.ok \/ stopping THEN [h EXCEPT !.pc = "exit"]
             ELSE [h EXCEPT !.pc = "top", !.requests = @ + 1]

\* What received holds of a pass: the envelope, and what the handlers of its
\* messages do if they run.
Received(tmsg, outcomes) ==
    [thread |-> tmsg.thread, to |-> tmsg.to, from |-> tmsg.from, body |-> tmsg.body,
     via |-> tmsg.via, outcomes |-> outcomes]

\* recv returned Some(msg).
recv_some(w, tmsg, outcomes, hook_ok) ==
    LET n == notify_state(w, "Active")
        h == handle_transport_message([n EXCEPT !.received = Received(tmsg, outcomes)],
                                      tmsg, outcomes)
    IN  IF ~n.ok THEN [n EXCEPT !.pc = "exit"]
        ELSE IF h.panicked THEN [h EXCEPT !.pc = "panicked"]
        ELSE IF h.ok THEN end_of_cycle(h, TRUE, hook_ok)
        ELSE end_of_cycle([h EXCEPT !.connected = FALSE, !.ok = TRUE], TRUE, hook_ok)

\* Mutant: a keepalive timeout ends the conversation without a reply.
recv_none_quiet(w, hook_ok) ==
    LET n == notify_state(w, "Active")
    IN  IF ~w.connected THEN end_of_cycle(w, FALSE, hook_ok)
        ELSE IF ~n.ok THEN [n EXCEPT !.pc = "exit"]
        ELSE end_of_cycle([n EXCEPT !.connected = FALSE], TRUE, hook_ok)

\* recv returned None.
recv_none(w, hook_ok) ==
    LET n == notify_state(w, "Active")
    IN  IF ~w.connected THEN end_of_cycle(w, FALSE, hook_ok)
        ELSE IF ~n.ok THEN [n EXCEPT !.pc = "exit"]
        ELSE end_of_cycle(reply_with_status([n EXCEPT !.connected = FALSE],
                                            MessageStatus.Timeout, NoMethod),
                          TRUE, hook_ok)

\* The Status codes that end a request or a conversation.
TerminalCodes ==
    {MessageStatus.Complete, MessageStatus.BadRequest, MessageStatus.InternalServerError,
     MessageStatus.MethodNotFound, MessageStatus.Timeout}

IsTerminal(msg) == msg.mtype = "STATUS" /\ msg.code \in TerminalCodes

RECURSIVE count_terminal(_, _)
\* terminal_sent after the envelopes of out have been sent (it stops at two).
count_terminal(count, out) ==
    IF out = <<>> THEN count
    ELSE LET tm == Head(out)
             p == <<tm.thread, tm.body[1].thread_trace>>
         IN  count_terminal(IF IsTerminal(tm.body[1]) /\ count[p] < 2
                            THEN [count EXCEPT ![p] = @ + 1] ELSE count,
                            Tail(out))

\* The worker after one pass through the loop body.
WorkerBecomes(w) ==
    /\ connected' = w.connected
    /\ session' = w.session
    /\ local_queue' = w.local_queue
    /\ requests' = w.requests
    /\ worker_pc' = w.pc
    /\ sent' = w.sent
    /\ events' = w.events
    /\ hooks' = w.hooks
    /\ terminal_sent' = count_terminal(terminal_sent, w.sent)
    /\ received' = w.received

\* The worker_start hook, before the loop.
WorkerStart(hook_ok) ==
    /\ worker_pc = "start"
    /\ hooks' = <<"worker_start">>
    /\ worker_pc' = IF hook_ok THEN "top" ELSE "done"
    /\ UNCHANGED <<connected, session, requests, stopping, parent_open, local_queue,
                   sent, events, thread_trace, terminal_sent, received, gateway_vars, server_vars, util_vars>>

\* The loop condition, and the reset before a stateless recv.
WorkerTop ==
    /\ worker_pc = "top"
    /\ IF requests >= max_requests
       THEN worker_pc' = "exit" /\ UNCHANGED <<connected, session, local_queue>>
       ELSE /\ worker_pc' = "recv"
            /\ LET w == IF connected THEN Worker ELSE reset(Worker)
               IN  /\ connected' = w.connected
                   /\ session' = w.session
                   /\ local_queue' = w.local_queue
    /\ UNCHANGED <<requests, stopping, parent_open, sent, events, hooks, thread_trace,
                   terminal_sent, received, gateway_vars, server_vars, util_vars>>

\* Client::clear fails in the reset before a stateless recv.
WorkerResetError ==
    /\ worker_pc = "top"
    /\ requests < max_requests
    /\ ~connected
    /\ session' = NoSession
    /\ worker_pc' = "exit"
    /\ UNCHANGED <<connected, requests, stopping, parent_open, local_queue, sent,
                   events, hooks, thread_trace, terminal_sent, received, gateway_vars, server_vars, util_vars>>

\* recv on the service address returns an envelope of a client.
WorkerRecvService(thread, body, outcomes, hook_ok) ==
    /\ worker_pc = "recv"
    /\ ~connected
    /\ thread \in env.threads
    /\ body \in env.bodies
    /\ thread_trace + Len(body) - 1 <= MaxTrace
    /\ thread_trace' = thread_trace + Len(body)
    /\ WorkerBecomes(recv_some(Worker,
                               TransportMessage(ServiceAddress("svc"), GatewayAddress,
                                                thread, Stamp(body, thread_trace),
                                                NoAddr),
                               outcomes, hook_ok))
    /\ UNCHANGED <<stopping, parent_open, gateway_vars, server_vars, util_vars>>

\* recv on the worker's own address returns the envelope waiting there.
WorkerRecvLocal(hook_ok) ==
    /\ worker_pc = "recv"
    /\ connected
    /\ local_queue # <<>>
    /\ \E outcomes \in Outcomes(Head(local_queue).body) :
          WorkerBecomes(recv_some([Worker EXCEPT !.local_queue = Tail(@)],
                                  Head(local_queue), outcomes, hook_ok))
    /\ UNCHANGED <<stopping, parent_open, thread_trace, gateway_vars, server_vars, util_vars>>

\* recv returns None: POLL_TIME or the keepalive has passed with no message.
WorkerRecvNone(hook_ok) ==
    /\ worker_pc = "recv"
    /\ connected => local_queue = <<>>
    /\ WorkerBecomes(recv_none(Worker, hook_ok))
    /\ UNCHANGED <<stopping, parent_open, thread_trace, gateway_vars, server_vars, util_vars>>

\* recv returns an error: the pass ends there, with nothing sent or called.
WorkerRecvError ==
    /\ worker_pc = "recv"
    /\ WorkerBecomes([Worker EXCEPT !.connected = FALSE, !.pc = "exit"])
    /\ UNCHANGED <<stopping, parent_open, thread_trace, gateway_vars, server_vars, util_vars>>

\* After the loop: worker_end, the Done event, the last reset.
WorkerExit(hook_ok) ==
    /\ worker_pc = "exit"
    /\ WorkerBecomes([reset(notify_state(call_hook(Worker, "worker_end", hook_ok), "Done"))
                        EXCEPT !.pc = "done"])
    /\ UNCHANGED <<stopping, parent_open, thread_trace, gateway_vars, server_vars, util_vars>>

(***************************************************************************)
(* The environment of the worker                                           *)
(***************************************************************************)
\* A client that knows the worker's address sends it an envelope.
ClientSend(thread, body) ==
    /\ worker_pc \in {"top", "recv"}
    /\ Len(local_queue) < MaxQueue
    /\ thread \in env.threads
    /\ body \in env.bodies
    /\ thread_trace + Len(body) - 1 <= MaxTrace
    /\ thread_trace' = thread_trace + Len(body)
    /\ local_queue' = Append(local_queue,
                             TransportMessage(WorkerAddress, GatewayAddress, thread,
                                              Stamp(body, thread_trace), NoAddr))
    /\ UNCHANGED <<connected, session, requests, worker_pc, stopping, parent_open,
                   sent, events, hooks, terminal_sent, received, gateway_vars, server_vars, util_vars>>

\* The supervisor sets the stop flag.
SetStopping ==
    /\ ~stopping
    /\ stopping' = TRUE
    /\ UNCHANGED <<connected, session, requests, worker_pc, parent_open, local_queue,
                   sent, events, hooks, thread_trace, terminal_sent, received, gateway_vars, server_vars, util_vars>>

\* The supervisor thread ends and drops its end of the channel.
ParentExit ==
    /\ parent_open
    /\ parent_open' = FALSE
    /\ UNCHANGED <<connected, session, requests, worker_pc, stopping, local_queue,
                   sent, events, hooks, thread_trace, terminal_sent, received, gateway_vars, server_vars, util_vars>>

WorkerNext ==
    \/ \E hook_ok \in BOOLEAN : WorkerStart(hook_ok)
    \/ WorkerTop
    \/ WorkerResetError
    \/ \E thread \in Threads, body \in Bodies, hook_ok \in BOOLEAN :
          \E outcomes \in Outcomes(body) :
             WorkerRecvService(thread, body, outcomes, hook_ok)
    \/ \E hook_ok \in BOOLEAN : WorkerRecvLocal(hook_ok)
    \/ \E hook_ok \in BOOLEAN : WorkerRecvNone(hook_ok)
    \/ WorkerRecvError
    \/ \E hook_ok \in BOOLEAN : WorkerExit(hook_ok)
    \/ \E thread \in Threads, body \in Bodies : ClientSend(thread, body)
    \/ SetStopping
    \/ ParentExit

WorkerSpecInit ==
    /\ GatewayInit /\ clock = ClockOff /\ env \in WorkerEnvironments /\ WorkerInit
    /\ ServerInit(MAX_WS_CLIENTS) /\ UtilInit

WorkerSpec == WorkerSpecInit /\ [][WorkerNext]_vars

(***************************************************************************)
(* The gateway process: ServerInbound::run, Server::run and the pool       *)
(***************************************************************************)
\* The variables of the one session modelled in full, which the process
\* level leaves alone.
session_vars ==
    <<shutdown_session, shutdown_timer, osrf_sessions, reqs_in_flight, request_queue,
      to_main, main_pc, in_pc, out_pc, bus_out, ws_out, close_sent, clock, env,
      late_forwards, in_flight_trace, outstanding>>

\* Mutant: a client is admitted while the pool holds max_clients sessions.
admits_at_limit(tcount, limit) == tcount <= limit

\* The test of Server::run on pool.active_count() + pool.queued_count().
admits(tcount, limit) == ~(tcount >= limit)

\* websocket::sync::Server::bind succeeds, or fails and sets the shutdown flag.
InboundBind(ok) ==
    /\ exit_code = NoExit
    /\ inbound_pc = "bind"
    /\ inbound_pc' = IF ok THEN "listen" ELSE "bind_failed"
    /\ shutdown_server' = (shutdown_server \/ ~ok)
    /\ UNCHANGED <<max_clients, server_pc, to_main_rx, accepted, pool_active,
                   pool_queued, started, refused, exit_code, session_vars, worker_vars, util_vars>>

\* A client connects: ServerInbound sends it to the main thread, and leaves
\* its loop if the shutdown flag is set by then.
InboundAccept ==
    /\ exit_code = NoExit
    /\ inbound_pc = "listen"
    /\ accepted < MaxAccepted
    /\ accepted' = accepted + 1
    /\ to_main_rx' = Append(to_main_rx, accepted + 1)
    /\ inbound_pc' = IF shutdown_server THEN "exited" ELSE "listen"
    /\ UNCHANGED <<max_clients, server_pc, pool_active, pool_queued, started, refused,
                   exit_code, shutdown_server, session_vars, worker_vars, util_vars>>

\* setup_signal_handlers, whose failure panics the main thread: the process
\* ends with the exit status of a panic, 101.
ServerSetup(ok) ==
    /\ exit_code = NoExit
    /\ server_pc = "setup"
    /\ server_pc' = IF ok THEN "check" ELSE "exited"
    /\ exit_code' = IF ok THEN NoExit ELSE 101
    /\ UNCHANGED <<max_clients, inbound_pc, to_main_rx, accepted, pool_active,
                   pool_queued, started, refused, shutdown_server, session_vars,
                   worker_vars, util_vars>>

\* SIGTERM or SIGINT once the handlers are registered.
ServerSignal ==
    /\ exit_code = NoExit
    /\ server_pc # "setup"
    /\ ~shutdown_server
    /\ shutdown_server' = TRUE
    /\ UNCHANGED <<server_vars, session_vars, worker_vars, util_vars>>

\* The top of the loop of Server::run: the shutdown flag is read.
ServerCheck ==
    /\ exit_code = NoExit
    /\ server_pc = "check"
    /\ server_pc' = IF shutdown_server THEN "join" ELSE "recv"
    /\ UNCHANGED <<max_clients, inbound_pc, to_main_rx, accepted, pool_active,
                   pool_queued, started, refused, exit_code, shutdown_server,
                   session_vars, worker_vars, util_vars>>

\* recv_timeout returns a client: it is handed to the pool or shut down.
ServerRecv ==
    /\ exit_code = NoExit
    /\ server_pc = "recv"
    /\ to_main_rx # <<>>
    /\ LET client == Head(to_main_rx)
           tcount == Cardinality(pool_active) + Len(pool_queued)
       IN  IF admits(tcount, max_clients)
           THEN pool_queued' = Append(pool_queued, client) /\ refused' = refused
           ELSE pool_queued' = pool_queued /\ refused' = refused \cup {client}
    /\ to_main_rx' = Tail(to_main_rx)
    /\ server_pc' = "check"
    /\ UNCHANGED <<max_clients, inbound_pc, accepted, pool_active, started, exit_code,
                   shutdown_server, session_vars, worker_vars, util_vars>>

\* recv_timeout times out, or finds the channel empty and its sender gone.
ServerRecvNone ==
    /\ exit_code = NoExit
    /\ server_pc = "recv"
    /\ to_main_rx = <<>>
    /\ server_pc' = IF inbound_pc \in {"bind_failed", "exited"} THEN "join" ELSE "check"
    /\ shutdown_server' = (shutdown_server \/ inbound_pc \in {"bind_failed", "exited"})
    /\ UNCHANGED <<max_clients, inbound_pc, to_main_rx, accepted, pool_active,
                   pool_queued, started, refused, exit_code, session_vars, worker_vars, util_vars>>

\* A pool thread takes the next job: Session::run starts for its client.
PoolStart ==
    /\ exit_code = NoExit
    /\ pool_queued # <<>>
    /\ Cardinality(pool_active) < MAX_WS_CLIENTS
    /\ pool_active' = pool_active \cup {Head(pool_queued)}
    /\ started' = started \cup {Head(pool_queued)}
    /\ pool_queued' = Tail(pool_queued)
    /\ UNCHANGED <<max_clients, inbound_pc, server_pc, to_main_rx, accepted, refused,
                   exit_code, shutdown_server, session_vars, worker_vars, util_vars>>

\* Session::run returns for a client.
SessionEnd(client) ==
    /\ exit_code = NoExit
    /\ client \in pool_active
    /\ pool_active' = pool_active \ {client}
    /\ UNCHANGED <<max_clients, inbound_pc, server_pc, to_main_rx, accepted,
                   pool_queued, started, refused, exit_code, shutdown_server,
                   session_vars, worker_vars, util_vars>>

\* pool.join() returns once no job runs or waits; the process exits.
ServerExit ==
    /\ exit_code = NoExit
    /\ server_pc = "join"
    /\ pool_active = {}
    /\ pool_queued = <<>>
    /\ server_pc' = "exited"
    /\ exit_code' = 0
    /\ UNCHANGED <<max_clients, inbound_pc, to_main_rx, accepted, pool_active,
                   pool_queued, started, refused, shutdown_server, session_vars,
                   worker_vars, util_vars>>

ServerNext ==
    \/ \E ok \in BOOLEAN : InboundBind(ok)
    \/ InboundAccept
    \/ \E ok \in BOOLEAN : ServerSetup(ok)
    \/ ServerSignal
    \/ ServerCheck
    \/ ServerRecv
    \/ ServerRecvNone
    \/ PoolStart
    \/ \E client \in 1 .. MaxAccepted : SessionEnd(client)
    \/ ServerExit

\* max_clients is OSRF_WS_MAX_CLIENTS, MAX_WS_CLIENTS by default.
ServerSpecInit ==
    /\ GatewayInit /\ clock = ClockOff /\ env = TimedEnvironment /\ WorkerInit
    /\ UtilInit /\ \E clients \in 0 .. MAX_WS_CLIENTS + 1 : ServerInit(clients)

ServerSpec == ServerSpecInit /\ [][ServerNext]_vars

(***************************************************************************)
(* Calls of evergreen::util::json_bool                                     *)
(***************************************************************************)
UtilSpecInit ==
    /\ GatewayInit /\ clock = ClockOff /\ env = TimedEnvironment /\ WorkerInit
    /\ ServerInit(MAX_WS_CLIENTS)
    /\ value \in JsonValues
    /\ returned = NoResult

JsonBool ==
    /\ returned = NoResult
    /\ returned' = json_bool(value)
    /\ UNCHANGED <<value, gateway_vars, worker_vars, server_vars>>

UtilSpec == UtilSpecInit /\ [][JsonBool]_vars

\* C3: for each (thread_id, thread_trace) the worker has sent at most one
\* Status whose code is Complete, BadRequest, InternalServerError,
\* MethodNotFound or Timeout.
C3_SingleCompletion == \A p \in DOMAIN terminal_sent : terminal_sent[p] <= 1

\* C11 (worker side): however many Disconnects of one thread a worker has
\* handled, it is as after the first: not connected, without a session,
\* still running, and it has sent no reply.
C11_DisconnectIdempotent ==
    (/\ received # NoTm
     /\ \A i \in 1 .. Len(received.body) : received.body[i].mtype = "DISCONNECT") =>
        /\ connected = FALSE
        /\ session = NoSession
        /\ sent = <<>>
        /\ worker_pc # "panicked"

\* C17: the transitions of a worker in its listen loop are published in
\* order.  The events of one pass are none, Active, or Active then Idle, and
\* Done comes alone, after the loop; a pass that sends a reply has published
\* Active first; Idle is published only by a worker that is not connected; a
\* pass in which work occurred and that returns to stateless listening has
\* published Idle; leaving the loop publishes Done (as long as the
\* supervisor's end of the channel is open), and nothing is published after it.
C17_Lifecycle ==
    [][/\ events' \in {<<>>, <<"Active">>, <<"Active", "Idle">>, <<"Done">>}
       /\ sent' # <<>> => events' # <<>> /\ events'[1] = "Active"
       /\ (\E i \in 1 .. Len(events') : events'[i] = "Idle") => ~connected'
       /\ (/\ worker_pc = "recv"
           /\ worker_pc' = "top"
           /\ ~connected'
           /\ events' # <<>>) => events' = <<"Active", "Idle">>
       /\ (worker_pc = "exit" /\ worker_pc' = "done" /\ parent_open) =>
              events' = <<"Done">>
       /\ events' = <<"Done">> => worker_pc' = "done"
       /\ worker_pc = "done" => UNCHANGED <<events, worker_pc>>]_vars

\* A worker that has completed a request and counted it has left the loop
\* and published Done.
C17_Witness ==
    /\ worker_pc = "done"
    /\ events = <<"Done">>
    /\ \E p \in DOMAIN terminal_sent : terminal_sent[p] > 0
    /\ requests > 0

\* C18: requests changes only by one, and only in a pass through the loop in
\* which a message was handled or a keepalive timeout ended a conversation
\* (Active was published, then Idle) and that leaves the worker not connected.
C18_CountsCompletions ==
    [][requests' # requests =>
           /\ requests' = requests + 1
           /\ events' = <<"Active", "Idle">>
           /\ ~connected']_vars

\* C19 as stated: a worker at the top of a receive cycle with the stop flag
\* set leaves the loop instead of receiving.
C19_StopsAtTop ==
    [][(stopping /\ worker_pc = "top" /\ worker_pc' # "top") => worker_pc' = "exit"]_vars

\* C19: with the stop flag set, a pass through the loop is followed by
\* another only if it leaves the worker connected: a pass that leaves the
\* worker not connected is the last one.  A worker that has left the loop runs
\* worker_end and publishes Done (as long as the supervisor's end of the
\* channel is open).
C19_StopsAfterCycle ==
    [][/\ (stopping /\ worker_pc = "recv" /\ worker_pc' = "top") => connected'
       /\ (worker_pc = "exit" /\ worker_pc' # "exit") =>
              /\ worker_pc' = "done"
              /\ hooks' = <<"worker_end">>
              /\ parent_open => events' = <<"Done">>]_vars

\* With the stop flag set the worker has handled one more message, replied,
\* reported Idle and left the loop before max_requests.
C19_Witness ==
    /\ stopping
    /\ worker_pc = "exit"
    /\ requests < max_requests
    /\ sent # <<>>
    /\ hooks = <<"end_session">>
    /\ events = <<"Active", "Idle">>

\* C20: when recv returns None to a connected worker whose supervisor is
\* there, the pass sends exactly one envelope, a Status(Timeout) from the
\* worker to the sender of the current session on the session's thread, and
\* leaves the worker not connected; Active is published, and if end_session
\* succeeds Idle after it; and unless the hook fails or the stop flag is set
\* the worker goes back to the top of the loop, where a worker that is not
\* connected listens on the service address.
C20_KeepaliveTimeout ==
    (worker_pc = "recv" /\ connected /\ local_queue = <<>> /\ parent_open) =>
        \A hook_ok \in BOOLEAN :
            LET w == recv_none(Worker, hook_ok)
            IN  /\ w.sent = <<TransportMessage(
                                  session.sender, WorkerAddress, session.thread,
                                  <<StatusMessage(session.last_thread_trace,
                                                  MessageStatus.Timeout)>>,
                                  NoAddr)>>
                /\ ~w.connected
                /\ w.events = IF hook_ok THEN <<"Active", "Idle">> ELSE <<"Active">>
                /\ (hook_ok /\ ~stopping) => w.pc = "top"
                /\ session # NoSession

\* The keepalive of a connected worker has run out: the Timeout is sent, Idle
\* is published and the worker is back at the top of the loop, not connected.
C20_Witness ==
    /\ worker_pc = "top"
    /\ ~connected
    /\ events = <<"Active", "Idle">>
    /\ Len(sent) = 1
    /\ sent[1].body[1].mtype = "STATUS"
    /\ sent[1].body[1].code = MessageStatus.Timeout
    /\ sent[1].to = GatewayAddress

\* The step is a pass through the loop in which recv returned an envelope
\* (taken from the service address or from the worker's own) and the envelope
\* was handed to handle_transport_message: received' is that envelope.
WorkerHandles ==
    /\ worker_pc = "recv"
    /\ worker_pc' # "recv"
    /\ received' # NoTm
    /\ thread_trace' # thread_trace \/ local_queue' # local_queue

\* C21: a pass that handles an envelope beginning with a Connect answers the
\* Connect first, with one Status carrying its thread_trace: Ok if the worker
\* was not connected, BadRequest if it was, and then no Ok carries that
\* thread_trace; if the Connect is the whole envelope the worker is connected
\* afterwards in the first case and not connected in the second.
C21_ConnectReply ==
    [][(WorkerHandles /\ received'.body[1].mtype = "CONNECT") =>
           LET trace == received'.body[1].thread_trace
               code == IF connected THEN MessageStatus.BadRequest ELSE MessageStatus.Ok
           IN  /\ sent' # <<>>
               /\ sent'[1].body = <<StatusMessage(trace, code)>>
               /\ Cardinality({i \in 1 .. Len(sent') :
                                  sent'[i].body[1].thread_trace = trace}) = 1
               /\ Len(received'.body) = 1 => connected' = ~connected]_vars

\* A connected worker has received a Connect and answered BadRequest.
C21_Witness ==
    /\ received # NoTm
    /\ received.to = WorkerAddress
    /\ received.body[1].mtype = "CONNECT"
    /\ sent # <<>>
    /\ sent[1].body[1].code = MessageStatus.BadRequest
    /\ ~connected

\* C22: a pass in which a connected worker handles an envelope whose thread
\* is not that of its session answers with Status(BadRequest) and runs no
\* handler (no Result and no Complete is sent).
C22_OtherThreadRefused ==
    [][(WorkerHandles /\ connected /\ received'.thread # session.thread) =>
           /\ sent' # <<>>
           /\ sent'[1].body[1].mtype = "STATUS"
           /\ sent'[1].body[1].code = MessageStatus.BadRequest
           /\ \A i \in 1 .. Len(sent') :
                  /\ sent'[i].body[1].mtype # "RESULT"
                  /\ sent'[i].body[1].code # MessageStatus.Complete]_vars

\* C23: a pass that handles an envelope beginning with a Request for a
\* method the registry lacks sends exactly one message with the thread_trace
\* of the Request, a Status(MethodNotFound) whose text quotes the method (so
\* no Result and no Complete for it), and the worker goes on with its loop:
\* it leaves the loop only for a stop flag or a failed end_session hook.
C23_MethodNotFound ==
    [][(/\ WorkerHandles
        /\ received'.body[1].mtype = "REQUEST"
        /\ received'.body[1].method # NoMethod
        /\ received'.body[1].method \notin DOMAIN methods) =>
           LET msg == received'.body[1]
               replies == {i \in 1 .. Len(sent') :
                              sent'[i].body[1].thread_trace = msg.thread_trace}
           IN  /\ replies = {1}
               /\ sent'[1].body =
                      <<StatusText(msg.thread_trace, MessageStatus.MethodNotFound,
                                   msg.method)>>
               /\ worker_pc' \in {"top", "exit"}
               /\ worker_pc' = "exit" =>
                      stopping \/ events' # <<"Active", "Idle">>]_vars

\* The worker has answered a Request for NoSuchMethod and is back at the top
\* of its loop.
C23_Witness ==
    /\ received # NoTm
    /\ received.body[1].method = NoSuchMethod
    /\ sent # <<>>
    /\ sent[1].body[1].code = MessageStatus.MethodNotFound
    /\ sent[1].body[1].text = NoSuchMethod
    /\ worker_pc = "top"

\* C24: a pass that handles an envelope made of one Request, for a method the
\* registry lacks or with a number of parameters the method does not take,
\* leaves the worker not connected and in its loop, whether or not it was
\* connected before.
C24_RefusalEndsConversation ==
    [][(/\ WorkerHandles
        /\ Len(received'.body) = 1
        /\ received'.body[1].mtype = "REQUEST"
        /\ received'.body[1].method # NoMethod
        /\ ~Dispatched(received'.body[1])) =>
           /\ ~connected'
           /\ worker_pc' \in {"top", "exit"}]_vars

\* C25: a pass that handles an envelope beginning with a Request whose
\* handler returns an error sends Status(InternalServerError) for it as its
\* last message and nothing for the later messages of the envelope; it
\* leaves the worker not connected and in its loop, which it leaves only for
\* a stop flag or a failed end_session hook, and it publishes no Done.
C25_HandlerError ==
    [][(/\ WorkerHandles
        /\ Dispatched(received'.body[1])
        /\ received'.outcomes[1].fails) =>
           LET msg == received'.body[1]
           IN  /\ sent' # <<>>
               /\ sent'[Len(sent')].body =
                      <<StatusText(msg.thread_trace, MessageStatus.InternalServerError,
                                   msg.method)>>
               /\ \A i \in 1 .. Len(sent') :
                      sent'[i].body[1].thread_trace = msg.thread_trace
               /\ ~connected'
               /\ worker_pc' \in {"top", "exit"}
               /\ worker_pc' = "exit" => stopping \/ events' # <<"Active", "Idle">>
               /\ \A i \in 1 .. Len(events') : events'[i] # "Done"]_vars

\* The handler of the first of two Requests of an envelope has failed: the
\* worker is back at the top of its loop.
C25_Witness ==
    /\ received # NoTm
    /\ Len(received.body) = 2
    /\ Dispatched(received.body[1])
    /\ received.outcomes[1].fails
    /\ Dispatched(received.body[2])
    /\ worker_pc = "top"
    /\ ~connected

\* C26: of an envelope a pass handles, every Request that is reached (no
\* earlier message of the envelope was a Disconnect or a Request whose
\* handler failed), is dispatched to a handler and whose handler returns Ok
\* gets exactly one Status(Complete) with its thread trace, whether the
\* handler completed the request itself or not.
C26_OneComplete ==
    [][WorkerHandles =>
           \A i \in 1 .. Len(received'.body) :
               (/\ Dispatched(received'.body[i])
                /\ ~received'.outcomes[i].fails
                /\ \A j \in 1 .. i - 1 :
                       /\ received'.body[j].mtype # "DISCONNECT"
                       /\ ~(Dispatched(received'.body[j]) /\ received'.outcomes[j].fails)) =>
                   Cardinality({k \in 1 .. Len(sent') :
                       sent'[k].body =
                           <<StatusMessage(received'.body[i].thread_trace,
                                           MessageStatus.Complete)>>}) = 1]_vars

\* Two Requests of one envelope have been handled on one session: the
\* handler of the first completed its request itself, the handler of the
\* second did not, and neither failed.
C26_Witness ==
    /\ received # NoTm
    /\ Len(received.body) = 2
    /\ Dispatched(received.body[1])
    /\ Dispatched(received.body[2])
    /\ received.outcomes[1] = HandlerOutcome(TRUE, FALSE)
    /\ received.outcomes[2] = HandlerOutcome(FALSE, FALSE)
    /\ Len(sent) = 4
    /\ sent[4].body = <<StatusMessage(received.body[2].thread_trace, MessageStatus.Complete)>>

\* C27: the worker reaches a receive only from the top of its loop, and
\* when it reaches it not connected the step has reset it: no session and an
\* empty bus queue; while it waits not connected it has no session.
C27_ResetBeforeStatelessRecv ==
    [][/\ (worker_pc # "recv" /\ worker_pc' = "recv") =>
              /\ worker_pc = "top"
              /\ connected' = connected
              /\ ~connected => session' = NoSession /\ local_queue' = <<>>
       /\ (worker_pc = "recv" /\ ~connected) => session = NoSession]_vars

\* The worker waits on the service address after a conversation in which it
\* handled an envelope sent to its own address.
C27_Witness ==
    /\ worker_pc = "recv"
    /\ ~connected
    /\ received # NoTm
    /\ received.to = WorkerAddress
    /\ session = NoSession
    /\ local_queue = <<>>

C29_ExitCodes ==
    exit_code # NoExit =>
        /\ exit_code = 0 => shutdown_server /\ pool_active = {} /\ pool_queued = <<>>
        /\ inbound_pc = "bind_failed" => exit_code # 0

\* C30: the envelopes that wait in the channel leave it in the order in
\* which the outbound thread received them from the bus.  A step either
\* leaves the waiting envelopes as they are and writes no text frame, or
\* puts one envelope behind the others and writes no text frame, or takes
\* the oldest of them and writes exactly one text frame, which has the
\* thread of that envelope and its messages in the order of the envelope.
C30_FramesInBusOrder ==
    [][LET IsOutbound(m) == m.tag = "Outbound"
           IsText(m) == m.kind = "Text"
           waiting == SelectSeq(to_main, IsOutbound)
           waiting_next == SelectSeq(to_main', IsOutbound)
           frames == SelectSeq(ws_out', IsText)
       IN  \/ /\ waiting_next = waiting
              /\ frames = <<>> \/ ws_out' = ws_out
           \/ /\ \E tm \in env.replies : waiting_next = Append(waiting, Outbound(tm))
              /\ to_main' = Append(to_main, waiting_next[Len(waiting_next)])
              /\ ws_out' = ws_out
           \/ /\ waiting # <<>>
              /\ waiting_next = Tail(waiting)
              /\ Head(to_main) = Head(waiting)
              /\ Len(frames) = 1
              /\ frames[1].thread = Head(waiting).tm.thread
              /\ frames[1].body = Head(waiting).tm.body]_vars

\* The frame of an envelope of two messages has been written while a later
\* envelope of the same thread and one of another thread wait in the channel.
C30_Witness ==
    /\ Len(to_main) = 2
    /\ to_main[1] = Outbound(Reply("T1", W1, <<Result>>))
    /\ to_main[2] = Outbound(StatusReply("T2", W2, MessageStatus.Complete))
    /\ ws_out # <<>>
    /\ ws_out[1].kind = "Text"
    /\ ws_out[1].thread = "T1"
    /\ ws_out[1].body = <<Result, Status(MessageStatus.Complete)>>

\* C31: every envelope the gateway puts on the bus has a thread that is
\* not empty and at most MAX_THREAD_SIZE bytes long, and a body that is not
\* empty and holds the messages of the frame in their order.
C31_EnvelopeWellFormed ==
    \A i \in 1 .. Len(bus_out) :
        LET e == bus_out[i]
        IN  /\ e.tm.thread # EmptyThread
            /\ e.text.tlen \in 1 .. MAX_THREAD_SIZE
            /\ e.tm.body # <<>>
            /\ e.tm.body = [k \in 1 .. Len(e.tm.body) |-> Message(e.text.msgs[k])]

\* C32: reqs_in_flight is the number of Connect and Request messages put
\* on the bus whose terminal Status has not been relayed back, counted
\* thread by thread.
C32_InFlightIsOutstanding ==
    env.audit => reqs_in_flight =
        outstanding["T1"] + outstanding["T2"] + outstanding["T3"] + outstanding[EmptyThread]

\* C33: json_bool returns true for a number other than zero, for a string
\* whose first character is t or T and for the boolean true, and returns
\* false for every other value.
C33_JsonBool ==
    returned # NoResult =>
        LET truthy ==
                \/ value.kind = "Number" /\ value.n # 0
                \/ /\ value.kind = "String"
                   /\ Len(value.chars) > 0
                   /\ value.chars[1].text \in {"t", "T"}
                \/ value.kind = "Boolean" /\ value.b
        IN  returned = IF truthy THEN "true" ELSE "false"

(***************************************************************************)
(* Properties of the gateway session                                       *)
(***************************************************************************)
\* The channel message the main thread is about to handle, if any.
Handling == main_pc = "recv" /\ to_main # <<>>
HandlingText ==
    /\ Handling
    /\ Head(to_main).tag = "Inbound"
    /\ Head(to_main).msg.kind = "Text"

\* C1: whenever the main loop is back at the top of its loop, having handled
\* a channel event and drained the backlog, reqs_in_flight is at most
\* max_parallel, and the backlog is empty if reqs_in_flight < max_parallel.
C1_InFlightInvariant ==
    main_pc = "check" =>
        /\ 0 <= reqs_in_flight
        /\ reqs_in_flight <= max_parallel
        /\ reqs_in_flight < max_parallel => request_queue = <<>>

\* C2: the backlog never holds more than MAX_BACKLOG_SIZE frames, and a text
\* frame handled while the backlog holds MAX_BACKLOG_SIZE frames leaves the
\* backlog as it was.
C2_BacklogBound ==
    /\ Len(request_queue) <= MAX_BACKLOG_SIZE
    /\ (HandlingText /\ Len(request_queue) >= MAX_BACKLOG_SIZE) =>
           listen_step(Session, Head(to_main)).request_queue = request_queue

\* C2 witness: a text frame reaches the main loop while the backlog is full.
C2_Witness == HandlingText /\ Len(request_queue) = MAX_BACKLOG_SIZE

\* The step of the main thread that handles the head of the channel.
MainHandles == Handling /\ main_pc' # "recv"
HandlesReply(t) ==
    /\ MainHandles
    /\ Head(to_main).tag = "Outbound"
    /\ Head(to_main).tm.thread = t

Entries(seq) == {seq[i] : i \in 1 .. Len(seq)}
HasStatus(body, code) == \E m \in Entries(body) : m.mtype = "STATUS" /\ m.code = code
IsError(m) == m.mtype = "STATUS" /\ m.code >= MessageStatus.BadRequest
HasError(body) == \E m \in Entries(body) : IsError(m)
\* The last Status of the body that touches the cache is an Ok.
EndsOk(body) ==
    \E i \in 1 .. Len(body) :
        /\ body[i] = Status(MessageStatus.Ok)
        /\ \A j \in (i + 1) .. Len(body) : ~IsError(body[j])
Router == RouterAddress(LocalDomain)
Relays(t, mtype) ==
    \E e \in Entries(bus_out) : e.tm.thread = t /\ Message(mtype) \in Entries(e.tm.body)

\* C5: the shutdown check makes the main loop return only when a shutdown flag
\* is set, the timer was started by an earlier check, and either the timer has
\* expired or nothing is in flight and the backlog is empty; and once the timer
\* was started the check lets the loop go on only while the timer runs and work
\* remains.
C5_ExitWhenDue ==
    [][(main_pc = "check" /\ main_pc' # "check") =>
          LET idle == reqs_in_flight = 0 /\ Len(request_queue) = 0
              due == timer_done(shutdown_timer) \/ idle
          IN  /\ main_pc' = "return_shutdown" =>
                    /\ shutdown_server \/ shutdown_session
                    /\ shutdown_timer # -1
                    /\ due
              /\ (main_pc' = "recv" /\ shutdown_timer # -1) => ~due]_vars

\* C5 witness: the loop has returned through the shutdown check, idle, before
\* the timer expired.
C5_Witness ==
    /\ main_pc = "return_shutdown"
    /\ shutdown_timer # -1
    /\ ~timer_done(shutdown_timer)
    /\ reqs_in_flight = 0

\* C6 as claimed: once the shutdown timer was started, a text frame handed to
\* the main loop is neither appended to the backlog nor relayed, and does not
\* change reqs_in_flight.
C6_NoNewFrames ==
    [][(MainHandles /\ HandlingText /\ shutdown_timer # -1) =>
          /\ request_queue' = request_queue
          /\ reqs_in_flight' = reqs_in_flight
          /\ bus_out' = <<>>]_vars

\* C6 as amended: the inbound thread forwards at most one websocket message
\* after shutdown_session has been set.
C6_OneLateFrame == late_forwards <= 1

\* C6 witness: a frame forwarded after shutdown_session was set has been
\* relayed to the bus while the timer runs.
C6_Witness ==
    /\ late_forwards = 1
    /\ shutdown_timer # -1
    /\ ~timer_done(shutdown_timer)
    /\ main_pc = "check"
    /\ bus_out # <<>>

\* C7: an envelope sent for a thread without a cached recipient is pushed to
\* the router of the local domain and addressed to the service named in the
\* frame; an envelope is pushed anywhere else only when the thread had a
\* cached recipient.
C7_RouterUnlessCached ==
    \A e \in Entries(bus_out) :
        /\ e.cached = NoAddr =>
               /\ e.tm.via = Router
               /\ e.tm.to = ServiceAddress(e.text.service)
        /\ e.tm.via # Router => e.cached # NoAddr

\* C7 witness: a frame of a thread without a cached recipient was relayed.
C7_Witness == \E e \in Entries(bus_out) : e.cached = NoAddr /\ e.tm.via = Router

\* C8 as claimed: a cache entry, once set, is only ever removed, never
\* replaced by another address.
C8_FirstFromKept ==
    [][\A t \in Threads :
          osrf_sessions[t] # NoAddr => osrf_sessions'[t] \in {osrf_sessions[t], NoAddr}]_vars

\* C8 as amended: the cache entry of a thread is the from address of the
\* latest Status(Ok) relayed for it: the entry changes to an address only when
\* an envelope of that thread and from that address carrying a Status(Ok) is
\* relayed, relaying such an envelope leaves the entry at its from address
\* (unless a Disconnect of the thread is relayed in the same iteration), and a
\* frame of a thread with a cached recipient is sent point-to-point to it.
C8_LatestOkCached ==
    [][\A t \in Threads :
          /\ (osrf_sessions'[t] # osrf_sessions[t] /\ osrf_sessions'[t] # NoAddr) =>
                 /\ HandlesReply(t)
                 /\ Head(to_main).tm.from = osrf_sessions'[t]
                 /\ HasStatus(Head(to_main).tm.body, MessageStatus.Ok)
          /\ (HandlesReply(t) /\ EndsOk(Head(to_main).tm.body)) =>
                 \/ osrf_sessions'[t] = Head(to_main).tm.from
                 \/ osrf_sessions'[t] = NoAddr /\ Relays(t, "DISCONNECT")'
          /\ \A e \in Entries(bus_out') :
                 e.cached # NoAddr => e.tm.to = e.cached /\ e.tm.via = NoAddr]_vars

\* C8 witness: the entry of T1 is W2 and a frame of T1 went point-to-point to W2.
C8_Witness ==
    /\ osrf_sessions["T1"] = W2
    /\ \E e \in Entries(bus_out) : e.tm.thread = "T1" /\ e.tm.to = W2 /\ e.tm.via = NoAddr

\* What the relay of an envelope wrote to the websocket.
Written(out, tm, keys) ==
    \E w \in Entries(out) :
        w.kind = "Text" /\ w.thread = tm.thread /\ w.body = tm.body /\ w.keys = keys
PlainKeys == {"oxrf_xid", "thread", "osrf_msg"}

\* C9 as claimed: relaying an envelope with a Status of code >= 400 writes a
\* frame with transport_error and leaves the thread without a cache entry, so
\* that frames of the thread relayed next go through the router; relaying an
\* envelope without such a Status writes a frame without the key.
C9_ErrorEvicts ==
    [][\A t \in Threads :
          HandlesReply(t) =>
              LET tm == Head(to_main).tm
              IN  IF HasError(tm.body)
                  THEN /\ Written(ws_out', tm, PlainKeys \cup {"transport_error"})
                       /\ osrf_sessions'[t] = NoAddr
                       /\ \A e \in Entries(bus_out') :
                              e.tm.thread = t => e.tm.via = Router
                  ELSE Written(ws_out', tm, PlainKeys)]_vars

\* C9 as amended: as claimed, except that a Status(Ok) that follows the error
\* Status in the same envelope caches the sender again.
C9_ErrorEvictsUnlessOk ==
    [][\A t \in Threads :
          HandlesReply(t) =>
              LET tm == Head(to_main).tm
              IN  IF HasError(tm.body)
                  THEN /\ Written(ws_out', tm, PlainKeys \cup {"transport_error"})
                       /\ ~EndsOk(tm.body) =>
                              /\ osrf_sessions'[t] = NoAddr
                              /\ \A e \in Entries(bus_out') :
                                     e.tm.thread = t => e.tm.via = Router
                  ELSE Written(ws_out', tm, PlainKeys)]_vars

\* C9 witness: an error Status was relayed with transport_error, the entry is
\* gone and the next frame of the thread went through the router.
C9_Witness ==
    /\ \E w \in Entries(ws_out) :
           "transport_error" \in w.keys /\ HasError(w.body) /\ w.thread = "T1"
    /\ osrf_sessions["T1"] = NoAddr
    /\ \E e \in Entries(bus_out) : e.tm.thread = "T1" /\ e.tm.via = Router

RECURSIVE Requests(_)
\* The number of Connect and Request messages in a sequence of bus_out entries.
Requests(out) ==
    IF out = <<>> THEN 0
    ELSE Cardinality({i \in 1 .. Len(Head(out).tm.body) :
                         Head(out).tm.body[i].mtype \in {"CONNECT", "REQUEST"}})
         + Requests(Tail(out))

\* C10: in an iteration that ends without error, reqs_in_flight grows by the
\* number of Connect and Request messages relayed, so a relayed Disconnect
\* leaves it alone, and the thread of a relayed Disconnect has no cache entry
\* afterwards.
C10_DisconnectKeepsInFlight ==
    [][(MainHandles /\ main_pc' = "check") =>
          LET m == Head(to_main)
              before == IF m.tag = "Outbound"
                        THEN relay_to_websocket(Session, m.tm).reqs_in_flight
                        ELSE reqs_in_flight
          IN  /\ reqs_in_flight' = before + Requests(bus_out')
              /\ \A t \in Threads :
                     Relays(t, "DISCONNECT")' => osrf_sessions'[t] = NoAddr]_vars

\* C10 witness: a Disconnect was relayed for a thread whose Connect or Request
\* is unanswered: the entry is gone and the counter is above zero.
C10_Witness ==
    /\ main_pc = "check"
    /\ \E e \in Entries(bus_out) : e.tm.thread = "T1" /\ e.tm.body = <<Message("DISCONNECT")>>
    /\ osrf_sessions["T1"] = NoAddr
    /\ reqs_in_flight > 0

\* C12: when the main loop is back at the top after an iteration, every frame
\* the iteration relayed was relayed while reqs_in_flight was below
\* max_parallel, and frames are left in the backlog only if reqs_in_flight
\* has reached max_parallel: a reply that frees a slot has the head of the
\* backlog relayed in the same iteration.
C12_RelayWhileBelowMax ==
    main_pc = "check" =>
        /\ \A i \in 1 .. Len(bus_out) :
               reqs_in_flight - Requests(SubSeq(bus_out, i, Len(bus_out))) < max_parallel
        /\ request_queue # <<>> => reqs_in_flight >= max_parallel

\* A Status(Complete) for T1 has been relayed with the counter saturated and
\* T3 waiting: T3 went out in the same iteration, the backlog is empty and
\* reqs_in_flight is max_parallel again.
C12_Witness ==
    /\ main_pc = "check"
    /\ \E w \in Entries(ws_out) :
           w.thread = "T1" /\ HasStatus(w.body, MessageStatus.Complete)
    /\ Len(bus_out) = 1
    /\ bus_out[1].tm.thread = "T3"
    /\ request_queue = <<>>
    /\ reqs_in_flight = max_parallel

\* C13: when the main thread takes from the channel a well-formed frame that
\* has a thread but no "service", with nothing waiting in the backlog and a
\* slot free, and the thread has a cached recipient, the frame is relayed to
\* the cached address and the main loop goes on.
C13_CachedNeedsNoService ==
    [][(/\ MainHandles
        /\ HandlingText
        /\ LET text == Head(to_main).msg
           IN  /\ text.parses
               /\ text.size < MAX_MESSAGE_SIZE
               /\ text.thread # NoThread
               /\ text.tlen <= MAX_THREAD_SIZE
               /\ text.service = NoService
               /\ osrf_sessions[text.thread] # NoAddr
        /\ request_queue = <<>>
        /\ reqs_in_flight < max_parallel) =>
           /\ main_pc' = "check"
           /\ \E e \in Entries(bus_out') :
                  /\ e.text = Head(to_main).msg
                  /\ e.tm.to = osrf_sessions[Head(to_main).msg.thread]]_vars

\* The channel messages handled so far are exactly those of HappyPath.
HappyPathDone == Len(in_flight_trace) = Len(HappyPath) + 1

RECURSIVE Changes(_)
\* A trace without the repetitions of a value.
Changes(trace) ==
    IF Len(trace) < 2 THEN trace
    ELSE IF trace[1] = trace[2] THEN Changes(Tail(trace))
    ELSE <<trace[1]>> \o Changes(Tail(trace))

\* C14 as stated: over the happy path reqs_in_flight goes 0, 1, 2, 1, 0 and
\* the cache entry of the thread is absent at the end.
C14_TraceToTwo ==
    HappyPathDone =>
        /\ Changes(in_flight_trace) = <<0, 1, 2, 1, 0>>
        /\ osrf_sessions["T1"] = NoAddr

\* C14: over the happy path reqs_in_flight is 0 at the start, 1 after the
\* Connect, 0 after the Status(Ok), 1 after the Request, 0 after the
\* Status(Complete) and 0 after the Disconnect, and the cache entry of the
\* thread is absent at the end.
C14_TraceToOne ==
    HappyPathDone =>
        /\ in_flight_trace = <<0, 1, 0, 1, 0, 0>>
        /\ osrf_sessions["T1"] = NoAddr

C14_Witness ==
    /\ HappyPathDone
    /\ main_pc = "check"
    /\ Relays("T1", "DISCONNECT")

\* C15: a text frame of more than MAX_MESSAGE_SIZE bytes is dropped, and the
\* drop leaves the main loop running and reqs_in_flight, the backlog and the
\* recipient cache as they were; a text frame of at most MAX_MESSAGE_SIZE
\* bytes that finds room in the backlog is queued (it is in the backlog or
\* on the bus when the iteration ends).
C15_DroppedIffLarger ==
    [][HandlingText /\ MainHandles =>
           LET text == Head(to_main).msg
           IN  /\ text.size > MAX_MESSAGE_SIZE =>
                      /\ main_pc' = "check"
                      /\ shutdown_session' = shutdown_session
                      /\ UNCHANGED <<reqs_in_flight, request_queue, osrf_sessions>>
                      /\ bus_out' = <<>>
               /\ (/\ text.size <= MAX_MESSAGE_SIZE
                   /\ Len(request_queue) < MAX_BACKLOG_SIZE
                   /\ main_pc' = "check") =>
                      Len(request_queue') + Len(bus_out') = Len(request_queue) + 1]_vars

\* The frame breaks the protocol of the gateway's ingress.
Violation(text) ==
    \/ ~text.parses
    \/ text.thread = NoThread
    \/ text.service = NoService
    \/ text.tlen > MAX_THREAD_SIZE
    \/ "BAD" \in Entries(text.msgs)

\* C16: an iteration of the main loop that takes a frame violating the
\* protocol from the backlog relays nothing of it and ends with the loop
\* still running and the session not shut down.  The frames taken are what
\* the backlog held once the handler of the channel message had run, less
\* what it holds when the iteration ends.
C16_ViolationDropsFrameOnly ==
    [][(/\ MainHandles
        /\ LET queue ==
                   IF Head(to_main).tag = "Inbound"
                   THEN handle_inbound_message(Session, Head(to_main).msg).request_queue
                   ELSE request_queue
               taken == SubSeq(queue, 1, Len(queue) - Len(request_queue'))
           IN  \E text \in Entries(taken) : Violation(text)) =>
           /\ main_pc' = "check"
           /\ shutdown_session' = shutdown_session
           /\ \A e \in Entries(bus_out') : ~Violation(e.text)]_vars

\* A frame that reaches the loop over its messages and holds, behind messages
\* the gateway relays, a message of a type it does not relay.
UnexpectedType(text) ==
    /\ ~Violation(text)
    /\ \E k \in 1 .. Len(text.msgs) :
           /\ text.msgs[k] \notin {"CONNECT", "REQUEST", "DISCONNECT", "NULL"}
           /\ \A j \in 1 .. (k - 1) : text.msgs[j] \in {"CONNECT", "REQUEST", "DISCONNECT"}

\* C34: a frame with an inner message that is not Connect, Request or
\* Disconnect is rejected as a whole: no envelope is sent for it, and
\* reqs_in_flight and the recipient cache are what they were before the
\* frame was taken, also when messages the gateway relays precede the
\* offending one.  The iterations looked at are those that receive such a
\* frame and take it, and nothing else, from the backlog.
C34_RejectedAtomically ==
    [][(/\ MainHandles
        /\ HandlingText
        /\ UnexpectedType(Head(to_main).msg)
        /\ handle_inbound_message(Session, Head(to_main).msg).request_queue
               = <<Head(to_main).msg>>
        /\ request_queue' = <<>>) =>
           /\ bus_out' = bus_out
           /\ reqs_in_flight' = reqs_in_flight
           /\ osrf_sessions' = osrf_sessions]_vars

C36_StopShutsDown ==
    /\ []((in_pc = "done" \/ out_pc = "done") =>
             /\ shutdown_session
             /\ (main_pc = "recv" /\ shutdown_timer = -1) =>
                    \E i \in 1 .. Len(to_main) : to_main[i] = Wakeup)
    /\ ((in_pc = "done" \/ out_pc = "done") ~> main_pc \notin {"check", "recv"})

\* The inbound thread has stopped on an error of its read while the main
\* loop was waiting with nothing in flight, and the main loop has started
\* the timer and returned through the shutdown check.
C36_Witness ==
    /\ in_pc = "done"
    /\ out_pc # "done"
    /\ main_pc = "return_shutdown"
    /\ shutdown_timer # -1
    /\ ~shutdown_server

\* C37: the backlog is first in, first out.  In an iteration of the main loop
\* that handles a channel message, the backlog is what it was, with the text
\* frame of the message at its tail if the frame was accepted; the frames
\* relayed to the bus in the iteration are, in their order, the frames at the
\* head of that backlog, each relayed once; and what is left of the backlog
\* is the rest of it in the same order (less the one frame at its head whose
\* rejection ended the loop).
C37_BacklogFifo ==
    [][MainHandles =>
          LET backlogs == IF HandlingText
                          THEN {request_queue, Append(request_queue, Head(to_main).msg)}
                          ELSE {request_queue}
              relayed == [i \in 1 .. Len(bus_out') |-> bus_out'[i].text]
              n == Len(relayed)
          IN  \E queue \in backlogs :
                  \/ queue = relayed \o request_queue'
                  \/ /\ main_pc' = "return_error"
                     /\ Len(queue) = n + 1 + Len(request_queue')
                     /\ SubSeq(queue, 1, n) = relayed
                     /\ SubSeq(queue, n + 2, Len(queue)) = request_queue']_vars

\* Two different frames were taken from the backlog and relayed in one
\* iteration, which ends with max_parallel messages in flight.
C37_Witness ==
    /\ Len(bus_out) = 2
    /\ bus_out[1].text # bus_out[2].text
    /\ reqs_in_flight = max_parallel
    /\ main_pc = "check"

\* C38: a pass through the loop that hands an envelope to
\* handle_transport_message dispatches each of its messages with a session
\* present: no pass ends in the panic of session_mut() on a missing session.
C38_SessionPresent ==
    [][WorkerHandles => worker_pc' # "panicked"]_vars

\* C39: whatever makes Worker::listen return, the step that returns has
\* published Done, as long as the supervisor's end of the channel is open.
C39_DoneBeforeReturn ==
    [][(worker_pc # "done" /\ worker_pc' = "done" /\ parent_open) =>
           events' = <<"Done">>]_vars

\* C40: a frame with a Disconnect, relayed for a thread that has a cached
\* recipient, is sent to that recipient with no router override; the entry of
\* the thread is gone when the iteration ends, and the frames of the thread
\* relayed after it in the iteration go to the service through the router.
C40_DisconnectPointToPoint ==
    [][MainHandles =>
          \A i \in 1 .. Len(bus_out') :
              LET e == bus_out'[i]
              IN  ("DISCONNECT" \in Entries(e.text.msgs) /\ e.cached # NoAddr) =>
                      /\ e.tm.to = e.cached
                      /\ e.tm.via = NoAddr
                      /\ (i = 1 /\ HandlingText) => e.cached = osrf_sessions[e.tm.thread]
                      /\ osrf_sessions'[e.tm.thread] = NoAddr
                      /\ \A j \in (i + 1) .. Len(bus_out') :
                             bus_out'[j].tm.thread = e.tm.thread =>
                                 /\ bus_out'[j].cached = NoAddr
                                 /\ bus_out'[j].tm.via = Router
                                 /\ bus_out'[j].tm.to =
                                        ServiceAddress(bus_out'[j].text.service)]_vars

\* A Disconnect was sent to the worker cached for its thread, and the frame
\* behind it in the backlog went to the router.
C40_Witness ==
    /\ Len(bus_out) = 2
    /\ bus_out[1].text.msgs = <<"DISCONNECT">>
    /\ bus_out[1].cached = W1
    /\ bus_out[1].tm.to = W1
    /\ bus_out[2].tm.thread = bus_out[1].tm.thread
    /\ bus_out[2].tm.via = Router
    /\ osrf_sessions[bus_out[1].tm.thread] = NoAddr

\* C4: once more than SHUTDOWN_MAX_WAIT seconds have passed since the server
\* shutdown flag was set, the session has terminated: the main loop has
\* returned, Close was sent and both child threads were joined.
C4_ShutdownBound == clock.since_shutdown > SHUTDOWN_MAX_WAIT => main_pc = "done"

====
